---------------------------- MODULE Spec2Model ----------------------------
(***************************************************************************)
(* doormanlb: a single-flight caching reverse proxy.                       *)
(*                                                                         *)
(* The model follows internal/service/request_service.go (the engine),     *)
(* internal/cache (the Redis store: values, leader locks, done channel),   *)
(* internal/routing (the router) and internal/config (endpoint policy).    *)
(* Each request handler is a process; every store call, the two ends of    *)
(* an upstream fetch and the return of Handle are separate steps.          *)
(***************************************************************************)
EXTENDS Integers, Sequences, FiniteSets, TLC

(***************************************************************************)
(* Bounds of the model.                                                    *)
(***************************************************************************)
\* requests served in one behaviour of Spec (requests_total never exceeds it)
MaxRequests == 2
\* faults in one behaviour: failed store calls, wait timeouts, cancelled
\* requests, expired locks and expired cache entries
MaxFaults == 1
\* requests served in one behaviour of SpecHealthy and SpecBurst
MaxBurst == 5
\* endpoint overrides in one configuration file of SpecConfig
MaxOverrides == 1
\* calls of Router.Acquire in one behaviour of SpecRouter
MaxAcquires == 3
\* calls of Release on one lease in one behaviour of SpecRouter
MaxReleaseCalls == 2
\* parameters in the query string of one request of SpecKeys
MaxParams == 2
\* Requests in a behaviour with a leader that stops: the leader's, one that
\* waits for it and one that comes later
MaxCrashRequests == 3
\* Requests in a behaviour in which every call returns and every timer fires
MaxLiveRequests == 3

(***************************************************************************)
(* Program constants.                                                      *)
(***************************************************************************)
maxCacheAttempts == 3
StatusInternalServerError == 500

StatusBadGateway == 502
StatusBadRequest == 400
StatusServiceUnavailable == 503
StatusOK == 200
StatusMethodNotAllowed == 405

\* time.Duration, counted in milliseconds
Millisecond == 1
Second == 1000 * Millisecond
defaultLeaderLockTTL == 15 * Second
maxLeaderLockTTL == 30 * Second

\* The goroutines that serve requests: two run Handle concurrently, and each
\* serves one request after the other.
Handlers == {1, 2}

(***************************************************************************)
(* Values.  A proxy.Response is its status and the request it answers      *)
(* (origin: the fingerprint of the request that was sent upstream; the     *)
(* upstream's body is a function of that request).                         *)
(***************************************************************************)
NoKey == <<"", <<>>>>
NoResponse == [status |-> 0, origin |-> NoKey]
NoLock == 0
NoNode == 0
NoRequest == [path |-> "", query |-> <<>>]
NoEndpoint == [ExpireTimeout |-> 0, CacheBehavior |-> "", IgnoreParameters |-> "nil"]
NoResolution == [path |-> "", endpoint |-> NoEndpoint, error |-> "nil"]
NoCall == [pc |-> "idle", i |-> 0, selected |-> NoNode, selectedLoad |-> 0, lease |-> 0]
NoBuild == [a |-> NoRequest, b |-> NoRequest, ignoreParameters |-> FALSE,
            keyA |-> NoKey, keyB |-> NoKey]
NoTTLs == [lockTTL |-> 0, timeout |-> 0]
NoExchange == [method |-> "", path |-> "", status |-> 0]
NoNotice == [from |-> NoLock, stored |-> "no", lost |-> FALSE, attempt |-> 0]

\* Status codes the upstream answers with: cacheable ones and the 5xx edge.
Statuses == {200, 500}

(***************************************************************************)
(* internal/config: the endpoint policy.                                   *)
(***************************************************************************)
DefaultEndpointKey == "DEFAULT"

\* The configuration the service runs with: DEFAULT caches, /page passes
\* through (as in the README's example, where /health passes through).
Endpoints ==
  [p \in {DefaultEndpointKey, "/page"} |->
     IF p = DefaultEndpointKey
       THEN [ExpireTimeout |-> 30000, CacheBehavior |-> "CACHE", IgnoreParameters |-> "false"]
       ELSE [ExpireTimeout |-> 0, CacheBehavior |-> "PASSTHROUGH", IgnoreParameters |-> "nil"]]

\* No overrides: every path gets the DEFAULT policy.
Endpoint_DefaultOnly(path) == Endpoints[DefaultEndpointKey]

\* Config.Endpoint, of configuration c
ConfigEndpoint(c, path) ==
  LET defaultCfg == c[DefaultEndpointKey] IN
  IF path \notin DOMAIN c THEN defaultCfg
  ELSE LET override == c[path] IN
       [ExpireTimeout |-> IF override.ExpireTimeout > 0 THEN override.ExpireTimeout
                          ELSE defaultCfg.ExpireTimeout,
        CacheBehavior |-> IF override.CacheBehavior # "" THEN override.CacheBehavior
                          ELSE defaultCfg.CacheBehavior,
        IgnoreParameters |-> IF override.IgnoreParameters # "nil" THEN override.IgnoreParameters
                             ELSE defaultCfg.IgnoreParameters]

\* Config.Endpoint, of the configuration the service runs with
Endpoint(path) == ConfigEndpoint(Endpoints, path)

ShouldIgnoreParameters(e) == e.IgnoreParameters # "nil" /\ e.IgnoreParameters = "true"

(***************************************************************************)
(* internal/keybuilder: the fingerprint.  A query is a sequence of         *)
(* <<key, value>> pairs (keys and values are numbers standing for the      *)
(* strings, ordered as the strings are).  SHA-256 is taken injective: the  *)
(* fingerprint is the hashed text itself.                                  *)
(***************************************************************************)
RECURSIVE SortedSeq(_)
SortedSeq(S) ==
  IF S = {} THEN <<>>
  ELSE LET m == CHOOSE x \in S : \A y \in S : x <= y
       IN <<m>> \o SortedSeq(S \ {m})

RECURSIVE Insert(_, _)
Insert(x, s) ==
  IF s = <<>> THEN <<x>>
  ELSE IF x <= Head(s) THEN <<x>> \o s
  ELSE <<Head(s)>> \o Insert(x, Tail(s))

\* The values of a key left in their order of appearance.
SortInts_AsGiven(s) == s

RECURSIVE SortInts(_)
SortInts(s) == IF s = <<>> THEN <<>> ELSE Insert(Head(s), SortInts(Tail(s)))

\* url.Values: for each key the values in order of appearance
QueryValues(q, k) ==
  LET sel == SelectSeq(q, LAMBDA p : p[1] = k)
  IN [i \in 1..Len(sel) |-> sel[i][2]]

RECURSIVE JoinParts(_, _)
JoinParts(q, keys) ==
  IF keys = <<>> THEN <<>>
  ELSE LET k == Head(keys)
           vals == SortInts(QueryValues(q, k))
       IN [i \in 1..Len(vals) |-> <<k, vals[i]>>] \o JoinParts(q, Tail(keys))

normalizeQuery(q) ==
  IF Len(q) = 0 THEN <<>>
  ELSE JoinParts(q, SortedSeq({q[i][1] : i \in DOMAIN q}))

\* The option not looked at.
Build_WithQuery(request, ignoreParameters) ==
  <<request.path, normalizeQuery(request.query)>>

Build(request, ignoreParameters) ==
  IF ignoreParameters THEN <<request.path, <<>>>>
  ELSE <<request.path, normalizeQuery(request.query)>>

\* The requests clients send: two articles (two fingerprints) and a
\* passthrough page.
Requests ==
  { [path |-> "/articles", query |-> <<<<2, 2>>, <<1, 1>>>>],
    [path |-> "/articles", query |-> <<<<1, 2>>>>],
    [path |-> "/page", query |-> <<<<1, 1>>>>] }

CacheKeyOf(request) == Build(request, ShouldIgnoreParameters(Endpoint(request.path)))

\* The fingerprints the store is asked about
Keys == {CacheKeyOf(r) : r \in {x \in Requests : Endpoint(x.path).CacheBehavior = "CACHE"}}

(***************************************************************************)
(* internal/routing: the upstream nodes.                                   *)
(***************************************************************************)
Services == <<"http://svc-a", "http://svc-b">>
Nodes == 1..Len(Services)

VARIABLES
  values,       \* store: resp:<key> -> cached response (NoResponse: absent)
  locks,        \* store: lock:<key> -> token (NoLock: absent)
  storeConfigured, \* s.cache != nil
  strategy,     \* router strategy
  inflight,     \* router: node -> leases out
  next,         \* router: round-robin counter
  stats,        \* serviceMetrics
  pc,           \* handler -> where it is in Handle
  req,          \* handler -> its request
  attempts,     \* handler -> loop counter of handleCache
  lock,         \* handler -> token of the lock it acquired
  mode,         \* handler -> which path fetches: passthrough, leader, fallback
  resp,         \* handler -> response fetched from upstream
  written,      \* handler -> response written to its client
  err,          \* handler -> error Handle returns
  lease,        \* handler -> node of its lease
  calls,        \* handler -> number of calls of each store operation and fetch
  cancelled,    \* handler -> the context of its request is done
  endpoints,    \* s.config.Endpoints
  storeAnswers, \* the Redis server answers PING in time
  ready,        \* status of the last answer of the ready endpoint (0: none)
  validated,    \* what Config.Validate returned at load ("": not run yet)
  resolved,     \* what Config.Endpoint returned for the last path asked
  caller,       \* goroutine -> where it is in Router.Acquire or Lease.Release
  leases,       \* the Lease objects Acquire has returned, in order
  picks,        \* the nodes selectNode has returned, in order
  build,        \* two requests, the options, and the fingerprints Build returned
  ttls,         \* handler -> the durations handleCache passed to the store
  http,         \* handler -> the exchange ServeHTTP is serving: method, path and
                \* the status ServeHTTP wrote itself (0: none)
  stored,       \* handler -> how its s.cache.Set went: "no" (not called, skipped
                \* or failed), "yes" (returned nil), "expired" (returned nil and
                \* the entry has expired since)
  notice,       \* handler -> the last done notification published for its key
                \* while it was in WaitForDone, and the attempt it was in
  older,        \* handler -> the entry of its key now in the store was written
                \* before the handler subscribed in WaitForDone
  refused,      \* handler -> token of the lock that was in its way at its last
                \* TryAcquireLeader (NoLock: none)
  faults        \* faults so far: failed store calls, wait timeouts, cancelled
                \* contexts, expired locks, expired cache entries

vars == <<values, locks, storeConfigured, strategy, inflight, next, stats, pc, req,
          attempts, lock, mode, resp, written, err, lease, calls, cancelled, endpoints,
          storeAnswers, ready, validated, resolved, caller, leases, picks, build,
          ttls, http, stored, notice, older, refused,
          faults>>

storeVars == <<values, locks>>
routerVars == <<inflight, next>>
configVars == <<storeConfigured, strategy>>
readyVars == <<endpoints, storeAnswers, ready>>
loadVars == <<validated, resolved>>
leaseVars == <<caller, leases, picks>>
noticeVars == <<stored, notice, older, refused>>


Counters == {"requestsTotal", "cacheHits", "cacheMisses", "leaderAcquired",
             "followerWaits", "upstreamFetches", "cacheSets", "cacheSkips5xx",
             "cacheOperationError", "followerTimeouts", "fallbackFetches"}
Operations == {"get", "set", "acquire", "release", "publish", "wait", "fetch"}
NoCalls == [o \in Operations |-> 0]

\* A step with outcome "err" is a fault; a behaviour has at most MaxFaults of
\* them.
Faulty(o) ==
  /\ o = "err" => faults < MaxFaults
  /\ faults' = IF o = "err" THEN faults + 1 ELSE faults

\* The outcome of a call made under the request context ctx of handler h:
\* once ctx is done the call fails; before that it fails as any store call may.
Ctx(h, o) ==
  IF cancelled[h] THEN o = "err" /\ faults' = faults ELSE Faulty(o)

\* The cleanup made under the request context: once that is done, publish and
\* release fail with it.
cleanupCtx_Request(h, o) == Ctx(h, o)

\* The outcome of a call made under cleanupCtx, which derives from
\* context.Background(): the request context has no part in it.
cleanupCtx(h, o) == Faulty(o)

Add(s, counter) == [s EXCEPT ![counter] = @ + 1]
Called(h, op) == [calls EXCEPT ![h][op] = @ + 1]

\* A response that never reaches the client.
WriteTo_Nothing(h, response) == written

\* Response.WriteTo(writer): the client of handler h is sent the response
WriteTo(h, response) == [written EXCEPT ![h] = response]

\* cacheKey of handleCache (request_service.go:84)
cacheKey(h) == CacheKeyOf(req[h])

Init ==
  /\ values = [k \in Keys |-> NoResponse]
  /\ locks = [k \in Keys |-> NoLock]
  /\ storeConfigured \in BOOLEAN
  /\ strategy = "ROUND_ROBIN"
  /\ inflight = [n \in Nodes |-> 0]
  /\ next = 0
  /\ stats = [c \in Counters |-> 0]
  /\ pc = [h \in Handlers |-> "idle"]
  /\ req = [h \in Handlers |-> NoRequest]
  /\ attempts = [h \in Handlers |-> 0]
  /\ lock = [h \in Handlers |-> NoLock]
  /\ mode = [h \in Handlers |-> "none"]
  /\ resp = [h \in Handlers |-> NoResponse]
  /\ written = [h \in Handlers |-> NoResponse]
  /\ err = [h \in Handlers |-> "nil"]
  /\ lease = [h \in Handlers |-> NoNode]
  /\ calls = [h \in Handlers |-> NoCalls]
  /\ cancelled = [h \in Handlers |-> FALSE]
  /\ endpoints = Endpoints
  /\ storeAnswers = storeConfigured
  /\ ready = 0
  /\ validated = "nil"
  /\ resolved = NoResolution
  /\ caller = [c \in Handlers |-> NoCall]
  /\ leases = <<>>
  /\ picks = <<>>
  /\ build = NoBuild
  /\ ttls = [h \in Handlers |-> NoTTLs]
  /\ http = [h \in Handlers |-> NoExchange]
  /\ stored = [h \in Handlers |-> "no"]
  /\ notice = [h \in Handlers |-> NoNotice]
  /\ older = [h \in Handlers |-> FALSE]
  /\ refused = [h \in Handlers |-> NoLock]
  /\ faults = 0

(***************************************************************************)
(* CachingService.Handle: entry.                                           *)
(***************************************************************************)
\* The check left out.
cacheIsNil_Never == FALSE

\* s.cache == nil (line 80)
cacheIsNil == ~storeConfigured

Handle(h, r, max) ==
  /\ pc[h] = "idle"
  /\ stats.requestsTotal < max
  /\ stats' = Add(stats, "requestsTotal")
  /\ req' = [req EXCEPT ![h] = r]
  /\ LET endpoint == Endpoint(r.path) IN
     IF endpoint.CacheBehavior = "PASSTHROUGH"
       THEN /\ pc' = [pc EXCEPT ![h] = "fetch"]
            /\ mode' = [mode EXCEPT ![h] = "passthrough"]
            /\ err' = err
       ELSE IF cacheIsNil
         THEN /\ pc' = [pc EXCEPT ![h] = "done"]
              /\ err' = [err EXCEPT ![h] = "config"]
              /\ mode' = mode
         ELSE /\ pc' = [pc EXCEPT ![h] = "get"]
              /\ UNCHANGED <<mode, err>>
  /\ UNCHANGED <<storeVars, configVars, noticeVars, build, ttls, readyVars, loadVars, leaseVars, cancelled, routerVars, attempts, lock, resp, written,
                 lease, calls, faults>>

\* The paths ServeHTTP answers itself (the ready path: handleReady).
AdminPaths == {"/__doormanlb/health", "/__doormanlb/metrics"}

\* Every method let through.
methodAllowed_Any(m) == TRUE

\* request.Method == http.MethodGet (handler.go line 42)
methodAllowed(m) == m = "GET"

\* Handler.ServeHTTP: the operational endpoints, the method check, and the
\* call of Handle.
ServeHTTP(h, r, m, max) ==
  IF r.path \in AdminPaths \/ ~methodAllowed(m)
    THEN /\ pc[h] = "idle"
         /\ pc' = [pc EXCEPT ![h] = "done"]
         /\ http' = [http EXCEPT ![h] =
                       [method |-> m, path |-> r.path,
                        status |-> IF r.path \in AdminPaths THEN StatusOK
                                   ELSE StatusMethodNotAllowed]]
         /\ UNCHANGED <<storeVars, configVars, noticeVars, build, ttls, readyVars, loadVars, leaseVars, routerVars, stats, req,
                        attempts, lock, mode, resp, written, err, lease, calls,
                        cancelled, faults>>
    ELSE /\ Handle(h, r, max)
         /\ http' = [http EXCEPT ![h] = [method |-> m, path |-> r.path, status |-> 0]]

\* Handle has returned; the goroutine is free to serve the next request.
Return(h) ==
  /\ pc[h] = "done"
  /\ ttls' = [ttls EXCEPT ![h] = NoTTLs]
  /\ pc' = [pc EXCEPT ![h] = "idle"]
  /\ req' = [req EXCEPT ![h] = NoRequest]
  /\ attempts' = [attempts EXCEPT ![h] = 0]
  /\ lock' = [lock EXCEPT ![h] = NoLock]
  /\ mode' = [mode EXCEPT ![h] = "none"]
  /\ resp' = [resp EXCEPT ![h] = NoResponse]
  /\ written' = [written EXCEPT ![h] = NoResponse]
  /\ err' = [err EXCEPT ![h] = "nil"]
  /\ calls' = [calls EXCEPT ![h] = NoCalls]
  /\ cancelled' = [cancelled EXCEPT ![h] = FALSE]
  /\ http' = [http EXCEPT ![h] = NoExchange]
  /\ stored' = [stored EXCEPT ![h] = "no"]
  /\ notice' = [notice EXCEPT ![h] = NoNotice]
  /\ older' = [older EXCEPT ![h] = FALSE]
  /\ refused' = [refused EXCEPT ![h] = NoLock]
  /\ UNCHANGED <<storeVars, configVars, build, readyVars, loadVars, leaseVars, routerVars, stats, lease, faults>>

(***************************************************************************)
(* The single-flight loop of handleCache.                                  *)
(***************************************************************************)
\* A store that has lost every value: each get is a miss.
StoreGet_Nothing(key) == NoResponse

\* A store that does not look at the key: it answers with any stored value.
StoreGet_AnyKey(key) ==
  IF \E k \in Keys : values[k] # NoResponse
    THEN values[CHOOSE k \in Keys : values[k] # NoResponse]
    ELSE NoResponse

\* RedisStore.Get: the stored response of a key, or nil
StoreGet(key) == values[key]

\* A hit taken for a miss.
isHit_Never(cachedResponse) == FALSE

\* cachedResponse != nil (line 94)
isHit(cachedResponse) == cachedResponse # NoResponse

\* s.cache.Get and what handleCache does with its result (lines 89-99)
Get(h, o) ==
  /\ pc[h] = "get"
  /\ Ctx(h, o)
  /\ calls' = Called(h, "get")
  /\ IF o = "err"
       THEN /\ stats' = Add(stats, "cacheOperationError")
            /\ err' = [err EXCEPT ![h] = "store"]
            /\ pc' = [pc EXCEPT ![h] = "done"]
            /\ written' = written
       ELSE LET cachedResponse == StoreGet(cacheKey(h)) IN
            IF isHit(cachedResponse)
              THEN /\ stats' = Add(stats, "cacheHits")
                   /\ written' = WriteTo(h, cachedResponse)
                   /\ pc' = [pc EXCEPT ![h] = "done"]
                   /\ err' = err
              ELSE /\ stats' = Add(stats, "cacheMisses")
                   /\ pc' = [pc EXCEPT ![h] = "acquire"]
                   /\ UNCHANGED <<written, err>>
  /\ UNCHANGED <<storeVars, configVars, noticeVars, build, ttls, readyVars, loadVars, leaseVars, http, cancelled, routerVars, req, attempts, lock, mode, resp,
                 lease>>

\* The token of a new lock: 16 random bytes, here the serial number of the
\* acquisition (tokens of different acquisitions differ).
randomToken == stats.leaderAcquired + 1

\* The client goes away, or the server shuts down: the context of the request
\* handler h serves is done from now on.
Cancel(h) ==
  /\ pc[h] \notin {"idle", "done"}
  /\ ~cancelled[h]
  /\ Faulty("err")
  /\ cancelled' = [cancelled EXCEPT ![h] = TRUE]
  /\ UNCHANGED <<storeVars, configVars, noticeVars, build, ttls, readyVars, loadVars, leaseVars, http, routerVars, stats, pc, req, attempts, lock,
                 mode, resp, written, err, lease, calls>>

\* A lock that does not exclude: every SETNX reports the key absent.
LockAbsent_Always(key) == TRUE

\* RedisStore.TryAcquireLeader: SETNX lock:<key> token; its reply (acquired)
\* is whether the key was absent
LockAbsent(key) == locks[key] = NoLock

\* SET in place of SETNX: the token is written whether or not a lock is there.
SetNX_Overwrites(key, token) == [locks EXCEPT ![key] = token]

SetNX(key, token) == IF LockAbsent(key) THEN [locks EXCEPT ![key] = token] ELSE locks

\* An acquisition left out of the count.
Elected_Uncounted(s) == s

\* s.stats.leaderAcquired.Add(1) (line 107)
Elected(s) == Add(s, "leaderAcquired")

\* A wait left out of the count.
Refused_Uncounted(s) == s

\* s.stats.followerWaits.Add(1) (line 112)
Refused(s) == Add(s, "followerWaits")

\* EndpointConfig.CacheTTL
CacheTTL(e) == e.ExpireTimeout * Millisecond

\* The cache TTL taken as it is when positive.
leaderLockTTL_Unclamped(cacheTTL) ==
  IF cacheTTL <= 0 THEN defaultLeaderLockTTL ELSE cacheTTL

leaderLockTTL(cacheTTL) ==
  IF cacheTTL <= 0 THEN defaultLeaderLockTTL
  ELSE IF cacheTTL < defaultLeaderLockTTL THEN defaultLeaderLockTTL
  ELSE IF cacheTTL > maxLeaderLockTTL THEN maxLeaderLockTTL
  ELSE cacheTTL

\* lockTTL of handleCache (lines 85-86), with the configuration the service
\* was built with
lockTTL(h) == leaderLockTTL(CacheTTL(ConfigEndpoint(endpoints, req[h].path)))

\* s.cache.TryAcquireLeader and lines 101-112
TryAcquireLeader(h, o) ==
  /\ pc[h] = "acquire"
  /\ ttls' = [ttls EXCEPT ![h].lockTTL = lockTTL(h)]
  /\ Ctx(h, o)
  /\ calls' = Called(h, "acquire")
  /\ IF o = "err"
       THEN /\ stats' = Add(stats, "cacheOperationError")
            /\ err' = [err EXCEPT ![h] = "store"]
            /\ pc' = [pc EXCEPT ![h] = "done"]
            /\ UNCHANGED <<locks, lock, mode, refused>>
       ELSE LET token == randomToken
                acquired == LockAbsent(cacheKey(h))
            IN /\ locks' = SetNX(cacheKey(h), token)
               /\ IF acquired
                    THEN /\ stats' = Elected(stats)
                         /\ lock' = [lock EXCEPT ![h] = token]
                         /\ mode' = [mode EXCEPT ![h] = "leader"]
                         /\ pc' = [pc EXCEPT ![h] = "fetch"]
                         /\ refused' = [refused EXCEPT ![h] = NoLock]
                    ELSE /\ stats' = Refused(stats)
                         /\ pc' = [pc EXCEPT ![h] = "subscribe"]
                         /\ refused' = [refused EXCEPT ![h] = locks[cacheKey(h)]]
                         /\ UNCHANGED <<lock, mode>>
               /\ err' = err
  /\ UNCHANGED <<values, configVars, stored, notice, older, build, readyVars, loadVars, leaseVars, http, cancelled, routerVars, req, attempts, resp, written,
                 lease>>


\* A loop without a bound: every iteration is followed by another.
NextAttempt_Endless(h) ==
  /\ attempts' = [attempts EXCEPT ![h] = @ + 1]
  /\ pc' = [pc EXCEPT ![h] = "get"]
  /\ mode' = mode

\* The end of one iteration of the loop (attempts++), and the fallback after it
\* (lines 88, 126-128)
NextAttempt(h) ==
  /\ attempts' = [attempts EXCEPT ![h] = @ + 1]
  /\ IF attempts[h] + 1 < maxCacheAttempts
       THEN /\ pc' = [pc EXCEPT ![h] = "get"]
            /\ mode' = mode
       ELSE /\ pc' = [pc EXCEPT ![h] = "fetch"]
            /\ mode' = [mode EXCEPT ![h] = "fallback"]

\* The fallback left out of the count.
AfterLoop_Uncounted(s, h) == s

AfterLoop(s, h) ==
  IF attempts[h] + 1 < maxCacheAttempts THEN s ELSE Add(s, "fallbackFetches")

\* RedisStore.WaitForDone, first half: Subscribe and Receive the confirmation
Subscribe(h, o) ==
  /\ pc[h] = "subscribe"
  /\ ttls' = [ttls EXCEPT ![h].timeout = lockTTL(h)]
  /\ Ctx(h, o)
  /\ calls' = Called(h, "wait")
  /\ IF o = "err"
       THEN /\ stats' = Add(stats, "cacheOperationError")
            /\ err' = [err EXCEPT ![h] = "store"]
            /\ pc' = [pc EXCEPT ![h] = "done"]
            /\ older' = older
       ELSE /\ pc' = [pc EXCEPT ![h] = "waiting"]
            /\ older' = [older EXCEPT ![h] = values[cacheKey(h)] # NoResponse]
            /\ UNCHANGED <<stats, err>>
  /\ UNCHANGED <<storeVars, configVars, stored, notice, refused, build, readyVars, loadVars, leaseVars, http, cancelled, routerVars, req, attempts, lock, mode, resp,
                 written, lease>>

\* WaitForDone returns nil: a message arrived on the channel
WaitNotified(h) ==
  /\ pc[h] = "notified"
  /\ NextAttempt(h)
  /\ stats' = AfterLoop(stats, h)
  /\ UNCHANGED <<storeVars, configVars, noticeVars, build, ttls, readyVars, loadVars, leaseVars, http, cancelled, routerVars, req, lock, resp, written, err,
                 lease, calls, faults>>

\* The entry of a key is written anew, or is gone: it is older than no
\* subscription.
Younger(key) == [f \in Handlers |-> IF cacheKey(f) = key THEN FALSE ELSE older[f]]

\* The TTL of the entry of a key runs out: Redis deletes it.
Expire(key) ==
  /\ values' = [values EXCEPT ![key] = NoResponse]
  /\ stored' = [h \in Handlers |-> IF stored[h] = "yes" /\ cacheKey(h) = key
                                     THEN "expired" ELSE stored[h]]
  /\ notice' = [h \in Handlers |->
                  IF notice[h].stored = "yes" /\ cacheKey(h) = key
                    THEN [notice[h] EXCEPT !.stored = "expired"] ELSE notice[h]]
  /\ older' = Younger(key)

\* A timer that tells nothing about the entries of the store.
Outlived_Never(h) == FALSE

\* The timer of WaitForDone has run for the timeout since the subscription: an
\* entry written before the subscription with a TTL (above 0: without one the
\* entry does not expire) of at most the timeout has expired by now.
Outlived(h) ==
  /\ older[h]
  /\ CacheTTL(ConfigEndpoint(endpoints, req[h].path)) > 0
  /\ CacheTTL(ConfigEndpoint(endpoints, req[h].path)) <= ttls[h].timeout

\* A timer that tells nothing about the locks of the store.
LockOutlived_Never(h) == FALSE

\* The lock that was in the way of handler h was set with the TTL lockTTL before
\* h was refused, and the timer of WaitForDone has run for lockTTL since: if
\* that lock is still stored, its TTL has run out by now.
LockOutlived(h) == refused[h] # NoLock /\ locks[cacheKey(h)] = refused[h]

\* A timeout left out of the count.
TimedOut_Uncounted(s) == s

\* s.stats.followerTimeouts.Add(1) (line 119)
TimedOut(s) == Add(s, "followerTimeouts")

\* A WaitForDone without a timer.
Timeout_Never(h) == FALSE

\* WaitForDone returns ErrWaitTimeout (lines 118-123, up to the sleep)
Timeout(h) ==
  /\ pc[h] = "waiting"
  /\ stats' = TimedOut(stats)
  /\ pc' = [pc EXCEPT ![h] = "backoff"]
  /\ IF Outlived(h) THEN Expire(cacheKey(h))
                     ELSE UNCHANGED <<values, stored, notice, older>>
  /\ locks' = IF LockOutlived(h) THEN [locks EXCEPT ![cacheKey(h)] = NoLock]
                                 ELSE locks
  /\ UNCHANGED <<configVars, refused, build, ttls, readyVars, loadVars, leaseVars, http, cancelled, routerVars, req, attempts, lock, mode, resp,
                 written, err, lease, calls>>

\* A timeout counted among the faults of a behaviour
WaitTimeout(h) == Faulty("err") /\ Timeout(h)

\* WaitForDone returns ctx.Err(): the request context was cancelled (114-117)
WaitCancelled(h) ==
  /\ pc[h] \in {"waiting", "notified"}
  /\ cancelled[h]
  /\ faults' = faults
  /\ stats' = Add(stats, "cacheOperationError")
  /\ err' = [err EXCEPT ![h] = "context"]
  /\ pc' = [pc EXCEPT ![h] = "done"]
  /\ UNCHANGED <<storeVars, configVars, noticeVars, build, ttls, readyVars, loadVars, leaseVars, http, cancelled, routerVars, req, attempts, lock, mode, resp,
                 written, lease, calls>>

\* sleepBackoff returns: the timer fired, or the context was cancelled
sleepBackoff(h, o) ==
  /\ pc[h] = "backoff"
  /\ o = "err" => cancelled[h]
  /\ faults' = faults
  /\ IF o = "err"
       THEN /\ err' = [err EXCEPT ![h] = "context"]
            /\ pc' = [pc EXCEPT ![h] = "done"]
            /\ UNCHANGED <<attempts, mode, stats>>
       ELSE /\ NextAttempt(h)
            /\ stats' = AfterLoop(stats, h)
            /\ err' = err
  /\ UNCHANGED <<storeVars, configVars, noticeVars, build, ttls, readyVars, loadVars, leaseVars, http, cancelled, routerVars, req, lock, resp, written,
                 lease, calls>>

(***************************************************************************)
(* fetchFromUpstream: lease, proxy.Fetch, release.                         *)
(***************************************************************************)
\* The index taken without the decrement: the second node comes first.
selectNode_NotDecremented == ((next + 1) % Len(Services)) + 1

\* Router.selectNode
selectNode ==
  IF strategy = "ROUND_ROBIN"
    THEN (((next + 1) - 1) % Len(Services)) + 1
    ELSE CHOOSE n \in Nodes :
           /\ \A m \in Nodes : inflight[n] <= inflight[m]
           /\ \A m \in Nodes : m < n => inflight[m] > inflight[n]

\* fetchFromUpstream up to the call of proxy.Fetch (lines 169-173)
FetchStart(h) ==
  /\ pc[h] = "fetch"
  /\ stats' = Add(stats, "upstreamFetches")
  /\ calls' = Called(h, "fetch")
  /\ LET n == selectNode IN
       /\ inflight' = [inflight EXCEPT ![n] = @ + 1]
       /\ lease' = [lease EXCEPT ![h] = n]
  /\ next' = IF strategy = "ROUND_ROBIN" THEN next + 1 ELSE next
  /\ pc' = [pc EXCEPT ![h] = "fetching"]
  /\ UNCHANGED <<storeVars, configVars, noticeVars, build, ttls, readyVars, loadVars, leaseVars, http, cancelled, req, attempts, lock, mode, resp, written, err,
                 faults>>

\* The comparison off by one: a 500 counts as cacheable.
shouldCache_Upto500(statusCode) == statusCode <= StatusInternalServerError

\* statusCode < http.StatusInternalServerError
shouldCache(statusCode) == statusCode < StatusInternalServerError

\* A return without the deferred cleanup.
AfterFetchError_Returns(h) == "done"

\* A failed fetch that is made again.
AfterFetchError_Retries(h) == "fetch"

\* Where a failed fetch leaves its caller: handleAsLeader returns through its
\* deferred cleanup, fetchAndWrite returns
AfterFetchError(h) == IF mode[h] = "leader" THEN "publish" ELSE "done"

\* A lease released only when the fetch returned a response.
LeaseRelease_UnlessError(h, o) ==
  IF o = "err" THEN inflight ELSE [inflight EXCEPT ![lease[h]] = @ - 1]

\* defer lease.Release() (line 171): runs on every return of fetchFromUpstream
LeaseRelease(h, o) == [inflight EXCEPT ![lease[h]] = @ - 1]

\* proxy.Fetch returns (status, or "err": a transport failure), the lease is
\* released, and the caller goes on: fetchAndWrite writes, handleAsLeader
\* goes to the store (or, on an error, to its deferred cleanup).
FetchEnd(h, status, o) ==
  /\ pc[h] = "fetching"
  /\ cancelled[h] => o = "err"
  /\ inflight' = LeaseRelease(h, o)
  /\ lease' = [lease EXCEPT ![h] = NoNode]
  /\ IF o = "err"
       THEN /\ err' = [err EXCEPT ![h] = "upstream"]
            /\ pc' = [pc EXCEPT ![h] = AfterFetchError(h)]
            /\ UNCHANGED <<resp, written>>
       ELSE LET upstreamResponse == [status |-> status, origin |-> cacheKey(h)] IN
            /\ resp' = [resp EXCEPT ![h] = upstreamResponse]
            /\ IF mode[h] = "leader"
                 THEN /\ pc' = [pc EXCEPT ![h] = "set"]
                      /\ written' = written
                 ELSE /\ pc' = [pc EXCEPT ![h] = "done"]
                      /\ written' = WriteTo(h, upstreamResponse)
            /\ err' = err
  /\ UNCHANGED <<storeVars, configVars, noticeVars, build, ttls, readyVars, loadVars, leaseVars, http, cancelled, next, stats, req, attempts, lock, mode, calls,
                 faults>>

(***************************************************************************)
(* handleAsLeader after the fetch.                                         *)
(***************************************************************************)
\* A set that returns nil and stores nothing.
StoreSet_Dropped(key, response) == values

\* RedisStore.Set
StoreSet(key, response) == [values EXCEPT ![key] = response]

\* A set that reports an error although the value was written.
StoreSetFailed_Written(key, response) == StoreSet(key, response)

\* RedisStore.Set returns an error: nothing is stored
StoreSetFailed(key, response) == values

\* lines 144-155: store unless 5xx, then write the response to the client
Set(h, o) ==
  /\ pc[h] = "set"
  /\ IF shouldCache(resp[h].status)
       THEN /\ Ctx(h, o)
            /\ calls' = Called(h, "set")
            /\ IF o = "err"
                 THEN /\ stats' = Add(stats, "cacheOperationError")
                      /\ values' = StoreSetFailed(cacheKey(h), resp[h])
                      /\ UNCHANGED <<stored, older>>
                 ELSE /\ stats' = Add(stats, "cacheSets")
                      /\ values' = StoreSet(cacheKey(h), resp[h])
                      /\ stored' = [stored EXCEPT ![h] = "yes"]
                      /\ older' = Younger(cacheKey(h))
       ELSE /\ o = "ok"
            /\ stats' = Add(stats, "cacheSkips5xx")
            /\ UNCHANGED <<values, calls, faults, stored, older>>
  /\ written' = WriteTo(h, resp[h])
  /\ pc' = [pc EXCEPT ![h] = "publish"]
  /\ UNCHANGED <<notice, refused>>
  /\ UNCHANGED <<locks, configVars, build, ttls, readyVars, loadVars, leaseVars, http, cancelled, routerVars, req, attempts, lock, mode, resp, err,
                 lease>>

\* A notification nobody receives.
Publish_Lost(key) == pc

\* RedisStore.PublishDone: the message reaches the handlers subscribed now
Publish(key) ==
  [h \in Handlers |-> IF pc[h] = "waiting" /\ cacheKey(h) = key THEN "notified" ELSE pc[h]]

\* A cleanup call whose error becomes the error of Handle.
Discard_Returned(h, o) == IF o = "err" THEN [err EXCEPT ![h] = "store"] ELSE err

\* _ = s.cache.PublishDone(...), _ = s.cache.ReleaseLeader(...): the error of a
\* cleanup call is dropped (lines 135-136)
Discard(h, o) == err

\* What the notification of leader h is to each handler of its key that has
\* been refused the lock and is in WaitForDone: who published it, how the
\* publisher's set went, and whether the handler had subscribed (if not, the
\* message does not reach it).
Notices(h) ==
  [f \in Handlers |->
     IF f # h /\ pc[f] \in {"subscribe", "waiting"} /\ cacheKey(f) = cacheKey(h)
       THEN [from |-> lock[h], stored |-> stored[h], lost |-> pc[f] = "subscribe",
             attempt |-> attempts[f]]
       ELSE notice[f]]

\* deferred cleanup, first call (line 135); its error is dropped
PublishDone(h, o) ==
  /\ pc[h] = "publish"
  /\ cleanupCtx(h, o)
  /\ err' = Discard(h, o)
  /\ calls' = Called(h, "publish")
  /\ pc' = [(IF o = "err" THEN pc ELSE Publish(cacheKey(h))) EXCEPT ![h] = "release"]
  /\ notice' = IF o = "err" THEN notice ELSE Notices(h)
  /\ UNCHANGED <<stored, older, refused>>
  /\ UNCHANGED <<storeVars, configVars, build, ttls, readyVars, loadVars, leaseVars, http, cancelled, routerVars, stats, req, attempts, lock, mode,
                 resp, written, lease>>

\* A release that deletes nothing.
CompareAndDelete_Nothing(key, token) == locks

\* DEL in place of the compare-and-delete script: the token is not compared.
CompareAndDelete_Unfenced(key, token) == [locks EXCEPT ![key] = NoLock]

\* RedisStore.ReleaseLeader: the compare-and-delete script
CompareAndDelete(key, token) ==
  IF locks[key] = token THEN [locks EXCEPT ![key] = NoLock] ELSE locks

\* deferred cleanup, second call (line 136); its error is dropped; Handle returns
ReleaseLeader(h, o) ==
  /\ pc[h] = "release"
  /\ cleanupCtx(h, o)
  /\ err' = Discard(h, o)
  /\ calls' = Called(h, "release")
  /\ locks' = IF o = "err" THEN locks ELSE CompareAndDelete(cacheKey(h), lock[h])
  /\ pc' = [pc EXCEPT ![h] = "done"]
  /\ UNCHANGED <<values, configVars, noticeVars, build, ttls, readyVars, loadVars, leaseVars, http, cancelled, routerVars, stats, req, attempts, lock, mode,
                 resp, written, lease>>

(***************************************************************************)
(* The store's clock: keys with a TTL expire.                              *)
(***************************************************************************)
ExpireLock(key) ==
  /\ locks[key] # NoLock
  /\ Faulty("err")
  /\ locks' = [locks EXCEPT ![key] = NoLock]
  /\ UNCHANGED <<values, configVars, noticeVars, build, ttls, readyVars, loadVars, leaseVars, http, cancelled, routerVars, stats, pc, req, attempts, lock, mode,
                 resp, written, err, lease, calls>>

ExpireResponse(key) ==
  /\ values[key] # NoResponse
  /\ Faulty("err")
  /\ Expire(key)
  /\ UNCHANGED <<locks, configVars, refused, build, ttls, readyVars, loadVars, leaseVars, http, cancelled, routerVars, stats, pc, req, attempts, lock, mode,
                 resp, written, err, lease, calls>>

(***************************************************************************)
(* internal/http: what the client is answered when Handle returns an error. *)
(***************************************************************************)
errBadRequest == "bad request"

\* Every error answered alike.
statusCode_Internal(e) == StatusInternalServerError

\* Handler.ServeHTTP, lines 47-55
statusCode(e) == IF e = errBadRequest THEN StatusBadRequest ELSE StatusBadGateway

Outcomes == {"ok", "err"}

\* Every step of the service, store faults, timeouts and expiry included.
Next ==
  \/ \E h \in Handlers, r \in Requests : ServeHTTP(h, r, "GET", MaxRequests)
  \/ \E h \in Handlers : Return(h)
  \/ \E h \in Handlers : Cancel(h)
  \/ \E h \in Handlers, o \in Outcomes : Get(h, o)
  \/ \E h \in Handlers, o \in Outcomes : TryAcquireLeader(h, o)
  \/ \E h \in Handlers, o \in Outcomes : Subscribe(h, o)
  \/ \E h \in Handlers : WaitNotified(h)
  \/ \E h \in Handlers : WaitTimeout(h)
  \/ \E h \in Handlers : WaitCancelled(h)
  \/ \E h \in Handlers, o \in Outcomes : sleepBackoff(h, o)
  \/ \E h \in Handlers : FetchStart(h)
  \/ \E h \in Handlers, s \in Statuses, o \in Outcomes : FetchEnd(h, s, o)
  \/ \E h \in Handlers, o \in Outcomes : Set(h, o)
  \/ \E h \in Handlers, o \in Outcomes : PublishDone(h, o)
  \/ \E h \in Handlers, o \in Outcomes : ReleaseLeader(h, o)
  \/ \E k \in Keys : ExpireLock(k)
  \/ \E k \in Keys : ExpireResponse(k)

Spec == Init /\ [][Next]_vars


\* The burst of the single-flight tests: every request is for one fingerprint
\* of a CACHE endpoint.
BurstRequests == {[path |-> "/articles", query |-> <<<<1, 2>>>>]}

\* Healthy coordination: no store call fails, no lock expires, no wait times
\* out, no context is cancelled.  The upstream may fail or answer 5xx, and
\* cached responses expire.
NextHealthy ==
  \/ \E h \in Handlers, r \in BurstRequests : ServeHTTP(h, r, "GET", MaxBurst)
  \/ \E h \in Handlers : Return(h)
  \/ \E h \in Handlers : Get(h, "ok")
  \/ \E h \in Handlers : TryAcquireLeader(h, "ok")
  \/ \E h \in Handlers : Subscribe(h, "ok")
  \/ \E h \in Handlers : WaitNotified(h)
  \/ \E h \in Handlers : FetchStart(h)
  \/ \E h \in Handlers, s \in Statuses, o \in Outcomes : FetchEnd(h, s, o)
  \/ \E h \in Handlers : Set(h, "ok")
  \/ \E h \in Handlers : PublishDone(h, "ok")
  \/ \E h \in Handlers : ReleaseLeader(h, "ok")
  \/ \E k \in Keys : ExpireResponse(k)

SpecHealthy == Init /\ [][NextHealthy]_vars

\* Healthy coordination, an upstream that answers below 500, and no cache
\* expiry during the burst.
NextBurst ==
  \/ \E h \in Handlers, r \in BurstRequests : ServeHTTP(h, r, "GET", MaxBurst)
  \/ \E h \in Handlers : Return(h)
  \/ \E h \in Handlers : Get(h, "ok")
  \/ \E h \in Handlers : TryAcquireLeader(h, "ok")
  \/ \E h \in Handlers : Subscribe(h, "ok")
  \/ \E h \in Handlers : WaitNotified(h)
  \/ \E h \in Handlers : FetchStart(h)
  \/ \E h \in Handlers, s \in {x \in Statuses : x < 500} : FetchEnd(h, s, "ok")
  \/ \E h \in Handlers : Set(h, "ok")
  \/ \E h \in Handlers : PublishDone(h, "ok")
  \/ \E h \in Handlers : ReleaseLeader(h, "ok")

SpecBurst == Init /\ [][NextBurst]_vars

(***************************************************************************)
(* The ready endpoint: Handler.handleReady and CachingService.Ready.       *)
(***************************************************************************)
\* Paths that may carry an override in the configuration file.
OverridePaths == {"/page", "/img"}

\* The configuration with these cacheBehavior entries (b[p] = "": the
\* override leaves cacheBehavior out).
ConfigOf(b) ==
  [p \in DOMAIN b |->
     [ExpireTimeout |-> IF p = DefaultEndpointKey THEN 30000 ELSE 0,
      CacheBehavior |-> b[p],
      IgnoreParameters |-> "nil"]]

\* The configurations Validate accepts: DEFAULT names its behaviour, an
\* override may leave it out.
Configs ==
  {Endpoints} \cup
  {ConfigOf(b) : b \in
     UNION {{f \in [{DefaultEndpointKey} \cup D -> {"", "CACHE", "PASSTHROUGH"}] :
               f[DefaultEndpointKey] # ""} : D \in SUBSET OverridePaths}}

\* Only the DEFAULT policy looked at.
UsesCache_DefaultOnly(c) == c[DefaultEndpointKey].CacheBehavior = "CACHE"

\* Config.UsesCache
UsesCache(c) ==
  \/ c[DefaultEndpointKey].CacheBehavior = "CACHE"
  \/ \E endpoint \in DOMAIN c \ {DefaultEndpointKey} :
       c[endpoint].CacheBehavior = "CACHE"

\* RedisStore.Ping: client.Ping(ctx).Err(), under the 2 s timeout of handleReady
Ping == IF storeAnswers THEN "nil" ELSE "ping failed"

\* CachingService.Ready: the error it returns ("nil": none).  A nil store
\* fails the type assertion and is not pinged.
Ready ==
  IF UsesCache(endpoints) /\ cacheIsNil
    THEN "cache configured but redis store is not initialized"
  ELSE IF storeConfigured THEN Ping
  ELSE "nil"

\* Handler.handleReady
handleReady ==
  /\ ready' = IF Ready # "nil" THEN StatusServiceUnavailable ELSE StatusOK
  /\ UNCHANGED <<storeVars, configVars, noticeVars, build, ttls, routerVars, stats, pc, req, attempts, lock,
                 mode, resp, written, err, lease, calls, cancelled, endpoints,
                 storeAnswers, loadVars, leaseVars, http, faults>>

\* The Redis server stops answering, or answers again.
StoreFails ==
  /\ storeConfigured /\ storeAnswers
  /\ storeAnswers' = FALSE
  /\ UNCHANGED <<storeVars, configVars, noticeVars, build, ttls, routerVars, stats, pc, req, attempts, lock,
                 mode, resp, written, err, lease, calls, cancelled, endpoints,
                 ready, loadVars, leaseVars, http, faults>>

StoreRecovers ==
  /\ storeConfigured /\ ~storeAnswers
  /\ storeAnswers' = TRUE
  /\ UNCHANGED <<storeVars, configVars, noticeVars, build, ttls, routerVars, stats, pc, req, attempts, lock,
                 mode, resp, written, err, lease, calls, cancelled, endpoints,
                 ready, loadVars, leaseVars, http, faults>>

\* The service after construction, with any valid configuration, with or
\* without a store, the store answering or not.
InitReady ==
  /\ values = [k \in Keys |-> NoResponse]
  /\ locks = [k \in Keys |-> NoLock]
  /\ storeConfigured \in BOOLEAN
  /\ strategy = "ROUND_ROBIN"
  /\ inflight = [n \in Nodes |-> 0]
  /\ next = 0
  /\ stats = [c \in Counters |-> 0]
  /\ pc = [h \in Handlers |-> "idle"]
  /\ req = [h \in Handlers |-> NoRequest]
  /\ attempts = [h \in Handlers |-> 0]
  /\ lock = [h \in Handlers |-> NoLock]
  /\ mode = [h \in Handlers |-> "none"]
  /\ resp = [h \in Handlers |-> NoResponse]
  /\ written = [h \in Handlers |-> NoResponse]
  /\ err = [h \in Handlers |-> "nil"]
  /\ lease = [h \in Handlers |-> NoNode]
  /\ calls = [h \in Handlers |-> NoCalls]
  /\ cancelled = [h \in Handlers |-> FALSE]
  /\ endpoints \in Configs
  /\ storeAnswers \in IF storeConfigured THEN BOOLEAN ELSE {FALSE}
  /\ ready = 0
  /\ validated = "nil"
  /\ resolved = NoResolution
  /\ caller = [c \in Handlers |-> NoCall]
  /\ leases = <<>>
  /\ picks = <<>>
  /\ build = NoBuild
  /\ ttls = [h \in Handlers |-> NoTTLs]
  /\ http = [h \in Handlers |-> NoExchange]
  /\ stored = [h \in Handlers |-> "no"]
  /\ notice = [h \in Handlers |-> NoNotice]
  /\ older = [h \in Handlers |-> FALSE]
  /\ refused = [h \in Handlers |-> NoLock]
  /\ faults = 0

NextReady ==
  \/ handleReady
  \/ StoreFails
  \/ StoreRecovers

SpecReady == InitReady /\ [][NextReady]_vars

(***************************************************************************)
(* The HTTP front: requests of any method, on proxied and operational      *)
(* paths, in front of a healthy service.                                   *)
(***************************************************************************)
Methods == {"GET", "POST", "DELETE"}

\* The requests clients send to the front: the burst, and the health and
\* metrics endpoints.
HTTPRequests ==
  BurstRequests \cup {[path |-> p, query |-> <<>>] : p \in AdminPaths}

NextHTTP ==
  \/ \E h \in Handlers, r \in HTTPRequests, m \in Methods : ServeHTTP(h, r, m, MaxBurst)
  \/ \E h \in Handlers : Return(h)
  \/ \E h \in Handlers : Get(h, "ok")
  \/ \E h \in Handlers : TryAcquireLeader(h, "ok")
  \/ \E h \in Handlers : Subscribe(h, "ok")
  \/ \E h \in Handlers : WaitNotified(h)
  \/ \E h \in Handlers : FetchStart(h)
  \/ \E h \in Handlers, s \in {x \in Statuses : x < 500} : FetchEnd(h, s, "ok")
  \/ \E h \in Handlers : Set(h, "ok")
  \/ \E h \in Handlers : PublishDone(h, "ok")
  \/ \E h \in Handlers : ReleaseLeader(h, "ok")
  \/ handleReady

SpecHTTP == Init /\ [][NextHTTP]_vars

(***************************************************************************)
(* internal/config: loading a configuration file.  Validate runs on what   *)
(* the file declares; the service resolves paths with what was accepted.   *)
(* Services and strategy of the file are valid throughout.                 *)
(***************************************************************************)
\* Keys a file may declare besides DEFAULT.
EndpointKeys ==
  {"", "/page", "/__doormanlb", "/__doormanlb/", "/__doormanlb/metrics",
   "/__doormanlb/custom"}

\* The prefix test taken only on the operational endpoints.
HasAdminPrefix_Operational(endpoint) == endpoint \in {"/__doormanlb/metrics"}

\* strings.HasPrefix(endpoint, AdminPathPrefix), on the keys above
HasAdminPrefix(endpoint) ==
  endpoint \in {"/__doormanlb/", "/__doormanlb/metrics", "/__doormanlb/custom"}

\* What one entry may declare: expireTimeout negative, left out (0) or
\* positive; cacheBehavior left out, valid or unknown.
Policies ==
  [ExpireTimeout : {-1, 0, 30000},
   CacheBehavior : {"", "CACHE", "PASSTHROUGH", "STORE"},
   IgnoreParameters : {"nil"}]

\* The endpoints of a configuration file: with or without DEFAULT, with up
\* to MaxOverrides other keys.
RawConfigs ==
  UNION {[D -> Policies] :
           D \in {X \in SUBSET ({DefaultEndpointKey} \cup EndpointKeys) :
                    Cardinality(X \ {DefaultEndpointKey}) <= MaxOverrides}}

\* A validateEndpoint without the range check of expireTimeout.
validateEndpoint_AnyTimeout(endpointCfg, requireBehavior) ==
  IF endpointCfg.CacheBehavior # ""
    THEN IF endpointCfg.CacheBehavior \in {"CACHE", "PASSTHROUGH"} THEN "nil"
         ELSE "unsupported cacheBehavior"
  ELSE IF requireBehavior THEN "cacheBehavior is required"
  ELSE "nil"

\* A validateEndpoint that never requires the behaviour.
validateEndpoint_BehaviorOptional(endpointCfg, requireBehavior) ==
  IF endpointCfg.ExpireTimeout < 0 THEN "expireTimeout must be >= 0"
  ELSE IF endpointCfg.CacheBehavior # ""
    THEN IF endpointCfg.CacheBehavior \in {"CACHE", "PASSTHROUGH"} THEN "nil"
         ELSE "unsupported cacheBehavior"
  ELSE "nil"

\* validateEndpoint: the error it returns ("nil": none)
validateEndpoint(endpointCfg, requireBehavior) ==
  IF endpointCfg.ExpireTimeout < 0 THEN "expireTimeout must be >= 0"
  ELSE IF endpointCfg.CacheBehavior # ""
    THEN IF endpointCfg.CacheBehavior \in {"CACHE", "PASSTHROUGH"} THEN "nil"
         ELSE "unsupported cacheBehavior"
  ELSE IF requireBehavior THEN "cacheBehavior is required"
  ELSE "nil"

\* One turn of the loop of Validate over the overrides.
validateOverride(c, endpoint) ==
  IF endpoint = "" THEN "endpoint keys cannot be empty"
  ELSE IF HasAdminPrefix(endpoint) THEN "endpoint key uses reserved prefix"
  ELSE validateEndpoint(c[endpoint], FALSE)

\* Config.Validate: the errors it may return ({}: it returns nil).  The loop
\* ranges over a map: it returns the error of whichever bad key comes first.
Validate(c) ==
  IF DefaultEndpointKey \notin DOMAIN c THEN {"endpoints.DEFAULT is required"}
  ELSE IF validateEndpoint(c[DefaultEndpointKey], TRUE) # "nil"
    THEN {validateEndpoint(c[DefaultEndpointKey], TRUE)}
  ELSE {validateOverride(c, endpoint) : endpoint \in DOMAIN c \ {DefaultEndpointKey}}
         \ {"nil"}

\* config.Load: the file is decoded and validated.
Load ==
  /\ validated = ""
  /\ validated' \in IF Validate(endpoints) = {} THEN {"nil"} ELSE Validate(endpoints)
  /\ UNCHANGED <<storeVars, configVars, noticeVars, build, ttls, readyVars, routerVars, stats, pc, req, attempts,
                 lock, mode, resp, written, err, lease, calls, cancelled, resolved, leaseVars,
                 http, faults>>

\* The paths requests come with.
RequestPaths == EndpointKeys \cup {"/articles"}

\* The switch of Handle on the resolved behaviour: the error of its default
\* branch ("nil": none)
behaviorError(endpoint) ==
  IF endpoint.CacheBehavior \in {"PASSTHROUGH", "CACHE"} THEN "nil"
  ELSE "unsupported cache behavior"

\* Handle resolves the endpoint of a request path with the loaded
\* configuration.
Resolve(path) ==
  /\ validated = "nil"
  /\ LET endpoint == ConfigEndpoint(endpoints, path) IN
     resolved' = [path |-> path, endpoint |-> endpoint, error |-> behaviorError(endpoint)]
  /\ UNCHANGED <<storeVars, configVars, noticeVars, build, ttls, readyVars, routerVars, stats, pc, req, attempts,
                 lock, mode, resp, written, err, lease, calls, cancelled, validated, leaseVars,
                 http, faults>>

\* Before the file is loaded: any file.
InitConfig ==
  /\ values = [k \in Keys |-> NoResponse]
  /\ locks = [k \in Keys |-> NoLock]
  /\ storeConfigured \in BOOLEAN
  /\ strategy = "ROUND_ROBIN"
  /\ inflight = [n \in Nodes |-> 0]
  /\ next = 0
  /\ stats = [c \in Counters |-> 0]
  /\ pc = [h \in Handlers |-> "idle"]
  /\ req = [h \in Handlers |-> NoRequest]
  /\ attempts = [h \in Handlers |-> 0]
  /\ lock = [h \in Handlers |-> NoLock]
  /\ mode = [h \in Handlers |-> "none"]
  /\ resp = [h \in Handlers |-> NoResponse]
  /\ written = [h \in Handlers |-> NoResponse]
  /\ err = [h \in Handlers |-> "nil"]
  /\ lease = [h \in Handlers |-> NoNode]
  /\ calls = [h \in Handlers |-> NoCalls]
  /\ cancelled = [h \in Handlers |-> FALSE]
  /\ endpoints \in RawConfigs
  /\ storeAnswers = storeConfigured
  /\ ready = 0
  /\ validated = ""
  /\ resolved = NoResolution
  /\ caller = [c \in Handlers |-> NoCall]
  /\ leases = <<>>
  /\ picks = <<>>
  /\ build = NoBuild
  /\ ttls = [h \in Handlers |-> NoTTLs]
  /\ http = [h \in Handlers |-> NoExchange]
  /\ stored = [h \in Handlers |-> "no"]
  /\ notice = [h \in Handlers |-> NoNotice]
  /\ older = [h \in Handlers |-> FALSE]
  /\ refused = [h \in Handlers |-> NoLock]
  /\ faults = 0

NextConfig ==
  \/ Load
  \/ \E path \in RequestPaths : Resolve(path)

SpecConfig == InitConfig /\ [][NextConfig]_vars

(***************************************************************************)
(* internal/routing at the grain of its atomic operations: goroutines call *)
(* Router.Acquire and Lease.Release concurrently.  Every atomic add, load  *)
(* and compare-and-swap is one step.                                       *)
(***************************************************************************)
\* Acquires begun so far.
AcquiresStarted == Len(picks) + Cardinality({c \in Handlers : caller[c].pc = "scan"})

\* selectNode under ROUND_ROBIN: atomic.AddUint64(&r.next, 1) and the index
SelectRoundRobin(c) ==
  /\ strategy = "ROUND_ROBIN"
  /\ caller[c].pc = "idle"
  /\ AcquiresStarted < MaxAcquires
  /\ LET n == selectNode IN
       /\ caller' = [caller EXCEPT ![c] = [NoCall EXCEPT !.pc = "add", !.selected = n]]
       /\ picks' = Append(picks, n)
  /\ next' = next + 1
  /\ UNCHANGED <<storeVars, configVars, noticeVars, build, ttls, readyVars, loadVars, inflight, stats, pc, req,
                 attempts, lock, mode, resp, written, err, lease, calls, cancelled,
                 leases, http, faults>>

\* selectNode under LEAST_CONNECTIONS: the load of the first node is read
ScanStart(c) ==
  /\ strategy # "ROUND_ROBIN"
  /\ caller[c].pc = "idle"
  /\ AcquiresStarted < MaxAcquires
  /\ caller' = [caller EXCEPT ![c] =
                  [NoCall EXCEPT !.pc = "scan", !.i = 2, !.selected = 1,
                                 !.selectedLoad = inflight[1]]]
  /\ UNCHANGED <<storeVars, configVars, noticeVars, build, ttls, readyVars, loadVars, routerVars, stats, pc, req,
                 attempts, lock, mode, resp, written, err, lease, calls, cancelled,
                 leases, picks, http, faults>>

\* One turn of the loop of selectNode: the load of node i is read and
\* compared; after the last node the selection is returned.
ScanNext(c) ==
  /\ caller[c].pc = "scan"
  /\ LET i == caller[c].i IN
     IF i > Len(Services)
       THEN /\ caller' = [caller EXCEPT ![c].pc = "add"]
            /\ picks' = Append(picks, caller[c].selected)
       ELSE /\ caller' = [caller EXCEPT ![c] =
                            IF inflight[i] < @.selectedLoad
                              THEN [@ EXCEPT !.i = i + 1, !.selected = i,
                                             !.selectedLoad = inflight[i]]
                              ELSE [@ EXCEPT !.i = i + 1]]
            /\ picks' = picks
  /\ UNCHANGED <<storeVars, configVars, noticeVars, build, ttls, readyVars, loadVars, routerVars, stats, pc, req,
                 attempts, lock, mode, resp, written, err, lease, calls, cancelled,
                 leases, http, faults>>

\* Acquire after selectNode: atomic.AddInt64(&n.inflight, 1) and the Lease
AddInflight(c) ==
  /\ caller[c].pc = "add"
  /\ inflight' = [inflight EXCEPT ![caller[c].selected] = @ + 1]
  /\ leases' = Append(leases, [node |-> caller[c].selected, released |-> FALSE,
                               decrements |-> 0, calls |-> 0])
  /\ caller' = [caller EXCEPT ![c] = NoCall]
  /\ UNCHANGED <<storeVars, configVars, noticeVars, build, ttls, readyVars, loadVars, next, stats, pc, req,
                 attempts, lock, mode, resp, written, err, lease, calls, cancelled,
                 picks, http, faults>>

\* A swap that always succeeds.
CompareAndSwap_Always(l) == TRUE

\* l.released.CompareAndSwap(false, true): whether it swaps
CompareAndSwap(l) == l.released = FALSE

\* Lease.Release up to the call of releaseFn, by any goroutine, on any lease
Release(c, id) ==
  /\ caller[c].pc = "idle"
  /\ id \in DOMAIN leases
  /\ leases[id].calls < MaxReleaseCalls
  /\ IF CompareAndSwap(leases[id])
       THEN /\ leases' = [leases EXCEPT ![id].released = TRUE, ![id].calls = @ + 1]
            /\ caller' = [caller EXCEPT ![c] = [NoCall EXCEPT !.pc = "releaseFn", !.lease = id]]
       ELSE /\ leases' = [leases EXCEPT ![id].calls = @ + 1]
            /\ caller' = caller
  /\ UNCHANGED <<storeVars, configVars, noticeVars, build, ttls, readyVars, loadVars, routerVars, stats, pc, req,
                 attempts, lock, mode, resp, written, err, lease, calls, cancelled,
                 picks, http, faults>>

\* releaseFn: atomic.AddInt64(&n.inflight, -1)
ReleaseFn(c) ==
  /\ caller[c].pc = "releaseFn"
  /\ LET id == caller[c].lease IN
       /\ inflight' = [inflight EXCEPT ![leases[id].node] = @ - 1]
       /\ leases' = [leases EXCEPT ![id].decrements = @ + 1]
  /\ caller' = [caller EXCEPT ![c] = NoCall]
  /\ UNCHANGED <<storeVars, configVars, noticeVars, build, ttls, readyVars, loadVars, next, stats, pc, req,
                 attempts, lock, mode, resp, written, err, lease, calls, cancelled,
                 picks, http, faults>>

\* NewRouter, with either strategy.
InitRouter ==
  /\ values = [k \in Keys |-> NoResponse]
  /\ locks = [k \in Keys |-> NoLock]
  /\ storeConfigured \in BOOLEAN
  /\ strategy \in {"ROUND_ROBIN", "LEAST_CONNECTIONS"}
  /\ inflight = [n \in Nodes |-> 0]
  /\ next = 0
  /\ stats = [c \in Counters |-> 0]
  /\ pc = [h \in Handlers |-> "idle"]
  /\ req = [h \in Handlers |-> NoRequest]
  /\ attempts = [h \in Handlers |-> 0]
  /\ lock = [h \in Handlers |-> NoLock]
  /\ mode = [h \in Handlers |-> "none"]
  /\ resp = [h \in Handlers |-> NoResponse]
  /\ written = [h \in Handlers |-> NoResponse]
  /\ err = [h \in Handlers |-> "nil"]
  /\ lease = [h \in Handlers |-> NoNode]
  /\ calls = [h \in Handlers |-> NoCalls]
  /\ cancelled = [h \in Handlers |-> FALSE]
  /\ endpoints = Endpoints
  /\ storeAnswers = storeConfigured
  /\ ready = 0
  /\ validated = "nil"
  /\ resolved = NoResolution
  /\ caller = [c \in Handlers |-> NoCall]
  /\ leases = <<>>
  /\ picks = <<>>
  /\ build = NoBuild
  /\ ttls = [h \in Handlers |-> NoTTLs]
  /\ http = [h \in Handlers |-> NoExchange]
  /\ stored = [h \in Handlers |-> "no"]
  /\ notice = [h \in Handlers |-> NoNotice]
  /\ older = [h \in Handlers |-> FALSE]
  /\ refused = [h \in Handlers |-> NoLock]
  /\ faults = 0

NextRouter ==
  \/ \E c \in Handlers : SelectRoundRobin(c)
  \/ \E c \in Handlers : ScanStart(c)
  \/ \E c \in Handlers : ScanNext(c)
  \/ \E c \in Handlers : AddInflight(c)
  \/ \E c \in Handlers, id \in 1..MaxAcquires : Release(c, id)
  \/ \E c \in Handlers : ReleaseFn(c)

SpecRouter == InitRouter /\ [][NextRouter]_vars

(***************************************************************************)
(* internal/keybuilder on pairs of requests: Build is applied to two       *)
(* requests with the same options.                                         *)
(***************************************************************************)
\* The parameters of a query string: key=value with two keys and two values
ParamPairs == {<<k, v>> : k \in {1, 2}, v \in {1, 2}}

\* The query strings with up to MaxParams parameters, in every order
Queries == UNION {[1..n -> ParamPairs] : n \in 0..MaxParams}

KeyRequests == {[path |-> p, query |-> q] : p \in {"/articles", "/page"}, q \in Queries}

\* Build on both requests
BuildKeys ==
  /\ build.keyA = NoKey
  /\ build' = [build EXCEPT !.keyA = Build(build.a, build.ignoreParameters),
                            !.keyB = Build(build.b, build.ignoreParameters)]
  /\ UNCHANGED <<storeVars, configVars, noticeVars, readyVars, loadVars, leaseVars, routerVars, stats,
                 pc, req, attempts, lock, mode, resp, written, err, lease, calls,
                 cancelled, ttls, http, faults>>

\* Any two requests, with either option.
InitKeys ==
  /\ values = [k \in Keys |-> NoResponse]
  /\ locks = [k \in Keys |-> NoLock]
  /\ storeConfigured \in BOOLEAN
  /\ strategy = "ROUND_ROBIN"
  /\ inflight = [n \in Nodes |-> 0]
  /\ next = 0
  /\ stats = [c \in Counters |-> 0]
  /\ pc = [h \in Handlers |-> "idle"]
  /\ req = [h \in Handlers |-> NoRequest]
  /\ attempts = [h \in Handlers |-> 0]
  /\ lock = [h \in Handlers |-> NoLock]
  /\ mode = [h \in Handlers |-> "none"]
  /\ resp = [h \in Handlers |-> NoResponse]
  /\ written = [h \in Handlers |-> NoResponse]
  /\ err = [h \in Handlers |-> "nil"]
  /\ lease = [h \in Handlers |-> NoNode]
  /\ calls = [h \in Handlers |-> NoCalls]
  /\ cancelled = [h \in Handlers |-> FALSE]
  /\ endpoints = Endpoints
  /\ storeAnswers = storeConfigured
  /\ ready = 0
  /\ validated = "nil"
  /\ resolved = NoResolution
  /\ caller = [c \in Handlers |-> NoCall]
  /\ leases = <<>>
  /\ picks = <<>>
  /\ build \in {[NoBuild EXCEPT !.a = a, !.b = b, !.ignoreParameters = o] :
                  a \in KeyRequests, b \in KeyRequests, o \in BOOLEAN}
  /\ ttls = [h \in Handlers |-> NoTTLs]
  /\ http = [h \in Handlers |-> NoExchange]
  /\ stored = [h \in Handlers |-> "no"]
  /\ notice = [h \in Handlers |-> NoNotice]
  /\ older = [h \in Handlers |-> FALSE]
  /\ refused = [h \in Handlers |-> NoLock]
  /\ faults = 0

NextKeys == BuildKeys

SpecKeys == InitKeys /\ [][NextKeys]_vars

(***************************************************************************)
(* The burst with any expireTimeout on the DEFAULT endpoint.               *)
(* NewCachingService takes the Config as it is given: the values below     *)
(* the range of Validate are included.                                     *)
(***************************************************************************)
ExpireTimeouts == {-1, 0, 1, 14999, 15000, 15001, 20000, 29999, 30000, 30001, 600000}

InitTTL ==
  /\ values = [k \in Keys |-> NoResponse]
  /\ locks = [k \in Keys |-> NoLock]
  /\ storeConfigured \in BOOLEAN
  /\ strategy = "ROUND_ROBIN"
  /\ inflight = [n \in Nodes |-> 0]
  /\ next = 0
  /\ stats = [c \in Counters |-> 0]
  /\ pc = [h \in Handlers |-> "idle"]
  /\ req = [h \in Handlers |-> NoRequest]
  /\ attempts = [h \in Handlers |-> 0]
  /\ lock = [h \in Handlers |-> NoLock]
  /\ mode = [h \in Handlers |-> "none"]
  /\ resp = [h \in Handlers |-> NoResponse]
  /\ written = [h \in Handlers |-> NoResponse]
  /\ err = [h \in Handlers |-> "nil"]
  /\ lease = [h \in Handlers |-> NoNode]
  /\ calls = [h \in Handlers |-> NoCalls]
  /\ cancelled = [h \in Handlers |-> FALSE]
  /\ endpoints \in {[Endpoints EXCEPT ![DefaultEndpointKey].ExpireTimeout = t] :
                      t \in ExpireTimeouts}
  /\ storeAnswers = storeConfigured
  /\ ready = 0
  /\ validated = "nil"
  /\ resolved = NoResolution
  /\ caller = [c \in Handlers |-> NoCall]
  /\ leases = <<>>
  /\ picks = <<>>
  /\ build = NoBuild
  /\ ttls = [h \in Handlers |-> NoTTLs]
  /\ http = [h \in Handlers |-> NoExchange]
  /\ stored = [h \in Handlers |-> "no"]
  /\ notice = [h \in Handlers |-> NoNotice]
  /\ older = [h \in Handlers |-> FALSE]
  /\ refused = [h \in Handlers |-> NoLock]
  /\ faults = 0

SpecTTL == InitTTL /\ [][NextBurst]_vars

(***************************************************************************)
(* A leader that stops before its cleanup: the process is killed between   *)
(* TryAcquireLeader and the deferred PublishDone and ReleaseLeader.        *)
(***************************************************************************)
\* The process of leader h stops: nothing of handleAsLeader runs any more, the
\* deferred cleanup included.  One leader stops, the other handler goes on.
Crash(h) ==
  /\ pc[h] \in {"fetch", "set", "publish"}
  /\ mode[h] = "leader"
  /\ \A g \in Handlers : pc[g] # "crashed"
  /\ pc' = [pc EXCEPT ![h] = "crashed"]
  /\ UNCHANGED <<storeVars, configVars, noticeVars, build, ttls, readyVars, loadVars,
                 leaseVars, http, cancelled, routerVars, stats, req, attempts, lock,
                 mode, resp, written, err, lease, calls, faults>>

\* The TTL given to SETNX runs out on the lock of the stopped leader: Redis
\* deletes the key.
LockTTLRunsOut(key) ==
  /\ locks[key] # NoLock
  /\ \E h \in Handlers : pc[h] = "crashed" /\ cacheKey(h) = key /\ lock[h] = locks[key]
  /\ locks' = [locks EXCEPT ![key] = NoLock]
  /\ UNCHANGED <<values, configVars, noticeVars, build, ttls, readyVars, loadVars,
                 leaseVars, http, cancelled, routerVars, stats, pc, req, attempts,
                 lock, mode, resp, written, err, lease, calls, faults>>

\* The timer of WaitForDone fires: every wait that is not ended otherwise ends
\* by timeout.
TimerFires(h) == faults' = faults /\ Timeout(h)

\* The steps of handler h once Handle is called: every call it makes returns
\* (healthy store, upstream that answers).
Progress(h) ==
  \/ Get(h, "ok")
  \/ TryAcquireLeader(h, "ok")
  \/ Subscribe(h, "ok")
  \/ WaitNotified(h)
  \/ TimerFires(h)
  \/ sleepBackoff(h, "ok")
  \/ FetchStart(h)
  \/ \E s \in Statuses : FetchEnd(h, s, "ok")
  \/ Set(h, "ok")
  \/ PublishDone(h, "ok")
  \/ ReleaseLeader(h, "ok")

InitCrash == Init /\ storeConfigured

NextCrash ==
  \/ \E h \in Handlers, r \in BurstRequests : ServeHTTP(h, r, "GET", MaxCrashRequests)
  \/ \E h \in Handlers : Return(h)
  \/ \E h \in Handlers : Progress(h)
  \/ \E h \in Handlers : Crash(h)
  \/ \E k \in Keys : LockTTLRunsOut(k)

\* Every call returns and every TTL runs out: a handler that can take a step
\* takes one, and the lock of a stopped leader expires.
FairCrash ==
  /\ \A h \in Handlers : WF_vars(Progress(h))
  /\ \A k \in Keys : WF_vars(LockTTLRunsOut(k))

SpecCrash == InitCrash /\ [][NextCrash]_vars /\ FairCrash

(***************************************************************************)
(* Handle when every call it makes returns and every wait ends: by         *)
(* notification, by timeout or by cancellation.                            *)
(***************************************************************************)
\* The store and the upstream answer: a call made under the request context
\* returns an error only when the context is done.
Returns(h, o) == o = "err" => cancelled[h]

\* The steps of handler h once Handle is called
Step(h) ==
  \/ \E o \in Outcomes : Returns(h, o) /\ Get(h, o)
  \/ \E o \in Outcomes : Returns(h, o) /\ TryAcquireLeader(h, o)
  \/ \E o \in Outcomes : Returns(h, o) /\ Subscribe(h, o)
  \/ WaitNotified(h)
  \/ TimerFires(h)
  \/ WaitCancelled(h)
  \/ \E o \in Outcomes : sleepBackoff(h, o)
  \/ FetchStart(h)
  \/ \E s \in Statuses, o \in Outcomes : Returns(h, o) /\ FetchEnd(h, s, o)
  \/ \E o \in Outcomes : Returns(h, o) /\ Set(h, o)
  \/ PublishDone(h, "ok")
  \/ ReleaseLeader(h, "ok")

NextLive ==
  \/ \E h \in Handlers, r \in BurstRequests : ServeHTTP(h, r, "GET", MaxLiveRequests)
  \/ \E h \in Handlers : Return(h)
  \/ \E h \in Handlers : Cancel(h)
  \/ \E h \in Handlers : Step(h)

\* Each store call, each wait and each upstream fetch returns.
FairLive == \A h \in Handlers : WF_vars(Step(h))

SpecLive == Init /\ [][NextLive]_vars /\ FairLive

(***************************************************************************)
(* Properties.                                                             *)
(***************************************************************************)
Fetching(h) == pc[h] = "fetching"
CacheRequest(h) ==
  /\ req[h] # NoRequest
  /\ ~(req[h].path \in DOMAIN Endpoints /\ Endpoints[req[h].path].CacheBehavior = "PASSTHROUGH")
\* the handlers on the leader path that hold the lock stored for key
Holders(key) ==
  {h \in Handlers : /\ pc[h] \in {"fetch", "fetching", "set", "publish", "release"}
                    /\ mode[h] = "leader"
                    /\ cacheKey(h) = key
                    /\ lock[h] = locks[key]}

\* C1 (as claimed): in a burst of Handle calls for one fingerprint of a CACHE
\* endpoint, with healthy coordination, an upstream answering below 500 and no
\* cache expiry, the service makes at most one upstream fetch.  Checked under
\* SpecBurst, whose behaviours are exactly these bursts; it fails: a handler
\* that missed the cache before the leader stored acquires the lock after the
\* leader released it and fetches again.
C1_AtMostOneFetch == stats.upstreamFetches <= 1

\* C2 (as claimed): under healthy coordination at most one upstream fetch is in
\* progress for a fingerprint, leader and fallback fetches counted alike.
C2_OneFetchInProgress ==
  \A k \in Keys :
    Cardinality({h \in Handlers : Fetching(h) /\ CacheRequest(h) /\ cacheKey(h) = k}) <= 1

\* C2 (amended): under healthy coordination at most one leader fetch is in
\* progress for a fingerprint; every handler that fetches as leader holds the
\* stored lock.
C2_OneLeaderFetchInProgress ==
  \A k \in Keys :
    LET leaders == {h \in Handlers : Fetching(h) /\ mode[h] = "leader" /\ cacheKey(h) = k}
    IN /\ Cardinality(leaders) <= 1
       /\ \A h \in leaders : locks[k] = lock[h] /\ lock[h] # NoLock

\* C2 witness: a leader fetches while a follower of the same fingerprint,
\* its attempts used up, fetches as fallback.
C2_Witness ==
  \E h1, h2 \in Handlers :
    /\ Fetching(h1) /\ mode[h1] = "leader"
    /\ Fetching(h2) /\ mode[h2] = "fallback"
    /\ cacheKey(h1) = cacheKey(h2)

\* the step ends with handler h holding a new lock
C3_Acquired(h) == pc'[h] = "fetch" /\ mode'[h] = "leader" /\ lock'[h] # NoLock
C3_AcquireStep ==
  \A h \in Handlers :
    (pc[h] = "acquire" /\ pc'[h] # "acquire" /\ faults' = faults /\ ~cancelled[h]) =>
      LET k == cacheKey(h) IN
        IF locks[k] # NoLock
          THEN ~C3_Acquired(h) /\ pc'[h] = "subscribe" /\ locks' = locks
          ELSE C3_Acquired(h) /\ locks'[k] = lock'[h]
               /\ \A h2 \in Handlers \ {h} : lock[h2] # lock'[h]

\* C3: while the lock of a key is stored (held, unexpired), tryAcquireLeader
\* answers acquired=false and leaves the lock as it is; when no lock is stored
\* (never taken, released by its holder, or expired) it answers acquired=true
\* and stores a new token; so at most one handler holds the stored lock.
C3_ExclusiveLeaderLock ==
  /\ [](\A k \in Keys : Cardinality(Holders(k)) <= 1)
  /\ [][C3_AcquireStep]_vars

\* C3 witness: a handler was refused while the lock was held, the holder has
\* released, and the refused handler now holds a newly acquired lock.
C3_Witness ==
  \E h1, h2 \in Handlers :
    /\ h1 # h2 /\ cacheKey(h1) = cacheKey(h2)
    /\ pc[h1] = "done" /\ calls[h1].release = 1 /\ lock[h1] # NoLock
    /\ Holders(cacheKey(h2)) = {h2}
    /\ lock[h2] # lock[h1]
    /\ calls[h2].acquire = 2

\* the step is the releaseLeader call of handler h
C4_ReleaseStep(h) == pc[h] = "release" /\ pc'[h] = "done"
C4_LockStep ==
  /\ \A h \in Handlers :
       (C4_ReleaseStep(h) /\ faults' = faults) =>
         LET k == cacheKey(h) IN
           /\ locks[k] = lock[h] => locks'[k] = NoLock
           /\ locks[k] # lock[h] => locks'[k] = locks[k]
           /\ \A k2 \in Keys \ {k} : locks'[k2] = locks[k2]
  /\ \A k \in Keys :
       (locks[k] # NoLock /\ locks'[k] # locks[k]) =>
         /\ locks'[k] = NoLock
         /\ \/ \E h \in Handlers :
                 C4_ReleaseStep(h) /\ cacheKey(h) = k /\ lock[h] = locks[k]
            \/ faults' = faults + 1 /\ pc' = pc
            \/ \E h \in Handlers :
                 /\ pc[h] = "waiting" /\ pc'[h] = "backoff"
                 /\ cacheKey(h) = k /\ refused[h] = locks[k]

\* C4: releaseLeader deletes the lock of a key only when the stored token is
\* the caller's token, and leaves any other token in place; a stored lock
\* never changes to another token, and it is removed only by the releaseLeader
\* of the handler that holds it or by its TTL (seen as an expiry of its own,
\* or at the timeout of a wait that began after the lock was set).
C4_FencedRelease == [][C4_LockStep]_vars

\* C4 witness: leader A's lock expired and B acquired the lock again (B's
\* token is the later one, and B started its fetch, the first of the two,
\* before A started its own); A's cleanup release has run since, and B's
\* lock is still in place.
C4_Witness ==
  \E a, b \in Handlers :
    /\ a # b /\ cacheKey(a) = cacheKey(b)
    /\ pc[a] = "done" /\ lock[a] # NoLock /\ calls[a].release = 1
    /\ lock[b] > lock[a]
    /\ pc[b] = "fetching" /\ lease[b] = 1 /\ next = 2
    /\ locks[cacheKey(b)] = lock[b]

\* the step of a leader after it fetched a response with status >= 500
C5_SkipStep ==
  \A h \in Handlers :
    (pc[h] = "set" /\ pc'[h] # "set" /\ resp[h].status >= 500) =>
      /\ calls'[h].set = 0
      /\ values' = values
      /\ stats'.cacheSkips5xx = stats.cacheSkips5xx + 1
      /\ stats'.cacheSets = stats.cacheSets
      /\ written'[h] = resp[h]

\* C5: no response with status >= 500 is ever in the cache, and a leader that
\* fetched one makes no set call: its step after the fetch adds 1 to
\* cache_skips_5xx_total, leaves cache_sets_total and the cache unchanged, and
\* writes the response to its client.
C5_Never5xxCached ==
  /\ [](\A k \in Keys : values[k] # NoResponse => values[k].status < 500)
  /\ [](\A h \in Handlers : resp[h].status >= 500 => calls[h].set = 0)
  /\ [][C5_SkipStep]_vars

\* C5 witness: a leader that fetched a 500 has skipped the store and written
\* the 500 to its client.
C5_Witness ==
  \E h \in Handlers :
    /\ pc[h] = "publish" /\ mode[h] = "leader"
    /\ resp[h].status >= 500 /\ written[h] = resp[h]
    /\ calls[h].set = 0
    /\ stats.cacheSkips5xx >= 1 /\ values[cacheKey(h)] = NoResponse

\* the step is handler h reading the cache while a response is stored
\* under its fingerprint
C6_ReadsStored(h) ==
  /\ pc[h] = "get" /\ pc'[h] # "get"
  /\ values[cacheKey(h)] # NoResponse
C6_Served(h) ==
  /\ pc'[h] = "done" /\ err'[h] = "nil"
  /\ written'[h] = values[cacheKey(h)]
  /\ written'[h].status < 500
  /\ calls'[h].fetch = calls[h].fetch
  /\ stats'.upstreamFetches = stats.upstreamFetches
  /\ stats'.cacheHits = stats.cacheHits + 1

\* C6 (as claimed): once a response with status < 500 is stored for a
\* fingerprint, every request of that fingerprint that reads the cache before
\* the entry expires is served the stored response, with no upstream fetch and
\* cache_hits_total + 1.
C6_ServedFromCache ==
  [][\A h \in Handlers : C6_ReadsStored(h) => C6_Served(h)]_vars

\* C6 (amended): the same, for the requests whose cache get does not fail.
C6_ServedFromCacheIfGetSucceeds ==
  [][\A h \in Handlers : (C6_ReadsStored(h) /\ faults' = faults /\ ~cancelled[h]) => C6_Served(h)]_vars

\* C6 witness: a leader stored its response and wrote it, and a later request
\* of the fingerprint was served the stored response without a fetch.
C6_Witness ==
  \E l, h \in Handlers :
    /\ l # h /\ cacheKey(l) = cacheKey(h)
    /\ lock[l] # NoLock /\ calls[l].set = 1 /\ written[l] = values[cacheKey(l)]
    /\ pc[h] = "done" /\ written[h] = written[l] /\ written[h].status < 500
    /\ calls[h].fetch = 0 /\ stats.cacheHits = 1 /\ stats.upstreamFetches = 1

\* C7: the response a handler writes for a request with fingerprint k was
\* fetched for a request with fingerprint k, by the handler itself or by the
\* leader that stored it under k; so is every response a handler holds and
\* every response in the cache.
C7_NoCrossedResponses ==
  /\ \A h \in Handlers :
       /\ written[h] # NoResponse => written[h].origin = CacheKeyOf(req[h])
       /\ resp[h] # NoResponse => resp[h].origin = CacheKeyOf(req[h])
  /\ \A k \in Keys : values[k] # NoResponse => values[k].origin = k

\* C7 witness: two handlers served requests with different fingerprints at
\* the same time; each has written its own response, and each response is
\* cached under its own fingerprint.
C7_Witness ==
  \E h1, h2 \in Handlers :
    /\ CacheRequest(h1) /\ CacheRequest(h2)
    /\ cacheKey(h1) # cacheKey(h2)
    /\ pc[h1] = "done" /\ pc[h2] = "done"
    /\ written[h1] # NoResponse /\ written[h2] # NoResponse
    /\ written[h1].origin # written[h2].origin
    /\ values[cacheKey(h1)] = written[h1] /\ values[cacheKey(h2)] = written[h2]

\* the request of handler h is for a path the configuration marks PASSTHROUGH
C8_Passthrough(r) ==
  /\ r.path \in DOMAIN Endpoints
  /\ Endpoints[r.path].CacheBehavior = "PASSTHROUGH"
C8_StoreOperations == {"get", "set", "acquire", "release", "publish", "wait"}
C8_CacheCounters == Counters \ {"requestsTotal", "upstreamFetches"}
\* a step of handler h while it serves a PASSTHROUGH request, its entry into
\* Handle included
C8_StepOf(h) ==
  /\ pc'[h] # pc[h]
  /\ C8_Passthrough(IF pc[h] = "idle" THEN req'[h] ELSE req[h])
  /\ pc[h] # "done"
C8_Frame ==
  \A h \in Handlers :
    C8_StepOf(h) =>
      /\ values' = values /\ locks' = locks
      /\ \A c \in C8_CacheCounters : stats'[c] = stats[c]
      /\ \A o \in C8_StoreOperations : calls'[h][o] = 0

\* C8: a request whose endpoint policy is PASSTHROUGH makes exactly one
\* upstream fetch and no call to the coordination store, and its steps leave
\* the cache, the locks and the cache counters unchanged.
C8_PassthroughBypassesStore ==
  /\ [](\A h \in Handlers :
          C8_Passthrough(req[h]) =>
            /\ \A o \in C8_StoreOperations : calls[h][o] = 0
            /\ calls[h].fetch <= 1
            /\ pc[h] = "done" => calls[h].fetch = 1)
  /\ [][C8_Frame]_vars

\* C8 witness: a PASSTHROUGH request has returned with its response written,
\* while a lock is held and a cache request is in its fetch.
C8_Witness ==
  \E h, l \in Handlers :
    /\ C8_Passthrough(req[h]) /\ pc[h] = "done"
    /\ written[h] # NoResponse /\ calls[h].fetch = 1
    /\ Fetching(l) /\ mode[l] = "leader" /\ locks[cacheKey(l)] = lock[l]

\* the step is the first cache get of handler h, and it finds a response
C9_FirstGetHit(h) ==
  /\ pc[h] = "get" /\ pc'[h] # "get"
  /\ calls[h] = NoCalls
  /\ values[cacheKey(h)] # NoResponse
  /\ faults' = faults /\ ~cancelled[h]
C9_HitStep ==
  \A h \in Handlers :
    C9_FirstGetHit(h) =>
      /\ pc'[h] = "done" /\ err'[h] = "nil"
      /\ written'[h] = values[cacheKey(h)]
      /\ calls'[h] = [NoCalls EXCEPT !["get"] = 1]
      /\ locks' = locks /\ values' = values
      /\ lock'[h] = NoLock

\* C9: a request on a CACHE endpoint whose first cache get is a hit writes the
\* cached response and returns after that one get, with no tryAcquireLeader
\* call and no upstream fetch, and with the lock and the cached value as they
\* were.
C9_HitReturnsAfterOneGet ==
  /\ [](\A h \in Handlers :
          (calls[h].get = 1 /\ attempts[h] = 0 /\ pc[h] = "done" /\ written[h] # NoResponse
             /\ CacheRequest(h) /\ lock[h] = NoLock) =>
            /\ calls[h] = [NoCalls EXCEPT !["get"] = 1]
            /\ err[h] = "nil")
  /\ [][C9_HitStep]_vars

\* C9 witness: a request was served by its first get, while the lock of its
\* fingerprint is still held by the leader that stored the response.
C9_Witness ==
  \E h, l \in Handlers :
    /\ h # l /\ cacheKey(h) = cacheKey(l)
    /\ pc[h] = "done" /\ calls[h] = [NoCalls EXCEPT !["get"] = 1]
    /\ written[h] = values[cacheKey(h)] /\ written[h] # NoResponse
    /\ pc[l] \in {"publish", "release"} /\ locks[cacheKey(l)] = lock[l]

\* a handler that acquired the leader lock for the request it serves
C10_Leader(h) == lock[h] # NoLock
\* C10: every handler that acquires the leader lock calls publishDone exactly
\* once and then releaseLeader exactly once before Handle returns, whether the
\* fetch succeeded, failed or answered 5xx, and whether or not the cache set
\* failed; and only leaders make these calls.
C10_CleanupOnEveryExit ==
  \A h \in Handlers :
    /\ calls[h].publish <= 1 /\ calls[h].release <= calls[h].publish
    /\ (pc[h] = "done" /\ C10_Leader(h)) => calls[h].publish = 1 /\ calls[h].release = 1
    /\ ~C10_Leader(h) => calls[h].publish = 0 /\ calls[h].release = 0

\* C10 witness: two leaders have returned after their cleanup, one whose fetch
\* failed and one whose cache set failed.
C10_Witness ==
  \E h1, h2 \in Handlers :
    /\ h1 # h2
    /\ pc[h1] = "done" /\ C10_Leader(h1) /\ err[h1] = "upstream"
    /\ calls[h1].publish = 1 /\ calls[h1].release = 1
    /\ pc[h2] = "done" /\ C10_Leader(h2) /\ calls[h2].set = 1
    /\ written[h2] # NoResponse /\ values[cacheKey(h2)] = NoResponse
    /\ stats.cacheOperationError = 1
    /\ calls[h2].publish = 1 /\ calls[h2].release = 1

\* the step is a step of handler h, a leader whose request context is done
C11_CancelledLeaderStep(h, from) ==
  /\ cancelled[h] /\ mode[h] = "leader" /\ lock[h] # NoLock
  /\ pc[h] = from /\ pc'[h] # from
C11_Step ==
  \A h \in Handlers :
    LET k == cacheKey(h) IN
    /\ C11_CancelledLeaderStep(h, "fetching") =>
         /\ err'[h] = "upstream" /\ pc'[h] = "publish"
         /\ resp'[h] = NoResponse /\ written'[h] = NoResponse
    /\ (C11_CancelledLeaderStep(h, "set") /\ shouldCache(resp[h].status)) =>
         /\ values' = values /\ stats'.cacheSets = stats.cacheSets
         /\ stats'.cacheOperationError = stats.cacheOperationError + 1
         /\ pc'[h] = "publish"
    /\ (C11_CancelledLeaderStep(h, "publish") /\ faults' = faults) =>
         /\ calls'[h].publish = 1
         /\ \A f \in Handlers :
              (pc[f] = "waiting" /\ cacheKey(f) = k) => pc'[f] = "notified"
    /\ (C11_CancelledLeaderStep(h, "release") /\ faults' = faults) =>
         /\ calls'[h].release = 1
         /\ locks[k] = lock[h] => locks'[k] = NoLock

\* C11: when the request context of a leader is cancelled, its fetch fails
\* (and so does its cache set, if the fetch had already returned), and the
\* cleanup still calls publishDone and releaseLeader; these two calls do not
\* fail with the cancellation, so the followers waiting on the key are notified
\* and the leader's lock is deleted.
C11_CleanupSurvivesCancellation ==
  /\ [](\A h \in Handlers :
          (cancelled[h] /\ lock[h] # NoLock /\ pc[h] = "done") =>
            calls[h].publish = 1 /\ calls[h].release = 1)
  /\ [][C11_Step]_vars

\* C11 witness: a leader was cancelled during its fetch and has returned the
\* error; its cleanup has run: the follower of its key is notified and the
\* lock is gone.
C11_Witness ==
  \E l, f \in Handlers :
    /\ l # f /\ cacheKey(l) = cacheKey(f)
    /\ cancelled[l] /\ pc[l] = "done" /\ lock[l] # NoLock /\ err[l] = "upstream"
    /\ calls[l].fetch = 1 /\ calls[l].set = 0
    /\ calls[l].publish = 1 /\ calls[l].release = 1
    /\ locks[cacheKey(l)] = NoLock
    /\ pc[f] = "notified"

\* the step is waitForDone returning nil to handler h
C12_WaitReturnsNotified(h) ==
  /\ pc[h] = "notified"
  /\ pc'[h] \notin {"notified", "done"}

\* C12 (as claimed): whenever waitForDone returns normally to a follower, on
\* any attempt of the loop, the last one included, the handler's next step is a
\* cache get, not an upstream fetch.  It fails on the last attempt: the loop
\* is over and the handler goes to its fallback fetch without reading the
\* cache, even when the leader that notified it has just stored the response.
C12_NotifiedRereadsCache ==
  [][\A h \in Handlers :
       C12_WaitReturnsNotified(h) =>
         /\ pc'[h] = "get"
         /\ stats'.fallbackFetches = stats.fallbackFetches]_vars

\* handler h has used up the attempts of the loop: it missed the cache and
\* was refused the lock maxCacheAttempts times
C13_Exhausted(h) ==
  /\ attempts[h] = maxCacheAttempts
  /\ calls[h].get = maxCacheAttempts /\ calls[h].acquire = maxCacheAttempts
  /\ lock[h] = NoLock
C13_Step ==
  /\ \A h \in Handlers :
       (attempts[h] < maxCacheAttempts /\ attempts'[h] = maxCacheAttempts) =>
         /\ mode'[h] = "fallback" /\ pc'[h] = "fetch"
         /\ stats'.fallbackFetches = stats.fallbackFetches + 1
  /\ stats'.fallbackFetches # stats.fallbackFetches =>
       \E h \in Handlers : attempts[h] < maxCacheAttempts /\ attempts'[h] = maxCacheAttempts

\* C13: a handler on a CACHE endpoint that misses the cache and is refused the
\* lock in each of the 3 attempts makes exactly one upstream fetch, directly,
\* and writes the response it gets; fallback_fetches_total goes up by exactly
\* 1 for it, and it never calls set, publishDone or releaseLeader.
C13_FallbackFetchesOnce ==
  /\ [](\A h \in Handlers :
          /\ mode[h] = "fallback" <=> attempts[h] = maxCacheAttempts
          /\ mode[h] = "fallback" =>
               /\ C13_Exhausted(h)
               /\ calls[h].set = 0 /\ calls[h].publish = 0 /\ calls[h].release = 0
               /\ calls[h].fetch <= 1
               /\ pc[h] \in {"fetch", "fetching", "done"}
               /\ pc[h] = "fetch" <=> calls[h].fetch = 0
               /\ pc[h] = "done" =>
                    \/ err[h] = "nil" /\ written[h] = resp[h] /\ resp[h] # NoResponse
                    \/ err[h] = "upstream" /\ written[h] = NoResponse)
  /\ [][C13_Step]_vars

\* C13 witness: a handler that was refused three times has returned after its
\* fallback fetch, with the response written and counted once.
C13_Witness ==
  \E h \in Handlers :
    /\ mode[h] = "fallback" /\ pc[h] = "done" /\ C13_Exhausted(h)
    /\ calls[h].wait = 3 /\ calls[h].fetch = 1
    /\ written[h] # NoResponse /\ written[h] = resp[h]
    /\ stats.fallbackFetches = 1 /\ stats.followerWaits = 3

\* follower f has been notified, and the other handler of its key is a leader
\* whose fetch failed and who has published
C14_WokenByFailedLeader(f) ==
  /\ pc[f] = "notified"
  /\ \E l \in Handlers \ {f} :
       /\ cacheKey(l) = cacheKey(f) /\ lock[l] # NoLock
       /\ err[l] = "upstream" /\ calls[l].publish = 1

C14_Step ==
  \A l \in Handlers :
    LET k == cacheKey(l) IN
    \* the failed fetch of a leader: the error is the leader's alone
    /\ (pc[l] = "fetching" /\ mode[l] = "leader" /\ err'[l] = "upstream") =>
         /\ \A f \in Handlers \ {l} : err'[f] = err[f] /\ pc'[f] = pc[f]
         /\ pc'[l] = "publish" /\ values' = values
    \* its notification wakes the followers waiting on the key
    /\ (pc[l] = "publish" /\ err[l] = "upstream" /\ pc'[l] = "release"
          /\ faults' = faults) =>
         \A f \in Handlers : (pc[f] = "waiting" /\ cacheKey(f) = k) =>
                                pc'[f] = "notified" /\ err'[f] = "nil"
    \* a woken follower with an attempt left reads the cache again, and from
    \* a miss calls tryAcquireLeader
    /\ (C14_WokenByFailedLeader(l) /\ pc'[l] \notin {"notified", "done"}) =>
         IF attempts[l] + 1 < maxCacheAttempts
           THEN pc'[l] = "get" /\ mode'[l] = mode[l]
           ELSE pc'[l] = "fetch" /\ mode'[l] = "fallback"
    /\ (pc[l] = "get" /\ calls[l].wait >= 1 /\ pc'[l] # "get" /\ values[k] = NoResponse
          /\ faults' = faults /\ ~cancelled[l]) =>
         pc'[l] = "acquire" /\ stats'.cacheMisses = stats.cacheMisses + 1

C15_SetFails(h) ==
  /\ pc[h] = "set" /\ pc'[h] # "set"
  /\ shouldCache(resp[h].status)
  /\ faults' # faults \/ cancelled[h]
C15_Step ==
  \A h \in Handlers :
    C15_SetFails(h) =>
      /\ err'[h] = "nil" /\ written'[h] = resp[h] /\ resp[h].status < 500
      /\ stats'.cacheOperationError = stats.cacheOperationError + 1
      /\ stats'.cacheSets = stats.cacheSets
      /\ values' = values
      /\ pc'[h] = "publish"

\* C15: if the cache set fails after a leader fetched a response with status
\* < 500, the response is written to the client and Handle returns no error;
\* cache_errors_total goes up by 1, cache_sets_total and the cached value of
\* the key stay as they are.
C15_FailedSetStillServes ==
  /\ [](\A h \in Handlers :
          (lock[h] # NoLock /\ calls[h].set = 1) =>
            /\ pc[h] \in {"publish", "release", "done"}
            /\ err[h] = "nil" /\ written[h] = resp[h] /\ written[h] # NoResponse)
  /\ [][C15_Step]_vars

\* C15 witness: a leader whose set failed has returned without error, its
\* response written and not cached, the failure counted.
C15_Witness ==
  \E h \in Handlers :
    /\ pc[h] = "done" /\ lock[h] # NoLock /\ calls[h].set = 1
    /\ err[h] = "nil" /\ written[h] = resp[h] /\ written[h].status = 200
    /\ values[cacheKey(h)] = NoResponse
    /\ stats.cacheOperationError = 1 /\ stats.cacheSets = 0

\* the step is a coordination call of handler h returning an error: get,
\* tryAcquireLeader, or waitForDone with an error other than ErrWaitTimeout
C16_CallFails(h) ==
  \/ /\ pc[h] \in {"get", "acquire", "subscribe"}
     /\ pc'[h] # pc[h]
     /\ faults' # faults \/ cancelled[h]
  \/ /\ pc[h] \in {"waiting", "notified"}
     /\ pc'[h] = "done"
C16_Step ==
  \A h \in Handlers :
    C16_CallFails(h) =>
      /\ pc'[h] = "done" /\ err'[h] \in {"store", "context"}
      /\ stats'.cacheOperationError = stats.cacheOperationError + 1
      /\ stats'.upstreamFetches = stats.upstreamFetches
      /\ calls'[h].fetch = 0 /\ written'[h] = NoResponse
      /\ statusCode(err'[h]) = 502

\* C16: when get or tryAcquireLeader returns an error, or waitForDone returns
\* an error other than WaitTimeout (a cancelled follower included), the
\* handler adds 1 to cache_errors_total and returns the error, having made no
\* upstream fetch and written no response; the HTTP layer answers 502.
C16_CoordinationErrorIs502 ==
  /\ [](\A h \in Handlers :
          err[h] \in {"store", "context"} =>
            /\ pc[h] = "done" /\ calls[h].fetch = 0 /\ written[h] = NoResponse
            /\ statusCode(err[h]) = 502)
  /\ [][C16_Step]_vars

\* C16 witness: a follower whose context was cancelled while it waited has
\* returned the error, counted once, with no fetch and nothing written.
C16_Witness ==
  \E h \in Handlers :
    /\ pc[h] = "done" /\ err[h] = "context" /\ cancelled[h]
    /\ calls[h].wait = 1 /\ calls[h].fetch = 0 /\ written[h] = NoResponse
    /\ stats.cacheOperationError = 1 /\ stats.followerWaits = 1
    /\ statusCode(err[h]) = 502

\* the step is Handle taking request r, whose policy is CACHE, while no store
\* is configured
C17_Step ==
  \A h \in Handlers :
    (pc[h] = "idle" /\ pc'[h] # "idle" /\ ~C8_Passthrough(req'[h]) /\ ~storeConfigured) =>
      /\ pc'[h] = "done" /\ err'[h] = "config"
      /\ written'[h] = NoResponse /\ calls'[h] = NoCalls
      /\ \A c \in Counters \ {"requestsTotal"} : stats'[c] = stats[c]
      /\ stats'.requestsTotal = stats.requestsTotal + 1
      /\ values' = values /\ locks' = locks /\ inflight' = inflight

\* C17: a request whose policy is CACHE fails with an error when no
\* coordination store is configured: no upstream fetch, no response written,
\* and no counter but requests_total changes.
C17_CacheWithoutStoreFails ==
  /\ [](~storeConfigured =>
          /\ \A h \in Handlers :
               (req[h] # NoRequest /\ ~C8_Passthrough(req[h])) =>
                 /\ pc[h] = "done" /\ err[h] = "config"
                 /\ calls[h] = NoCalls /\ written[h] = NoResponse
          /\ \A c \in Counters \ {"requestsTotal", "upstreamFetches"} : stats[c] = 0
          /\ stats.upstreamFetches <= stats.requestsTotal)
  /\ [][C17_Step]_vars

\* C17 witness: with no store, a CACHE request has failed and a PASSTHROUGH
\* request has been served; only requests_total counts the failed one.
C17_Witness ==
  \E h, p \in Handlers :
    /\ ~storeConfigured
    /\ ~C8_Passthrough(req[h]) /\ pc[h] = "done" /\ err[h] = "config"
    /\ C8_Passthrough(req[p]) /\ pc[p] = "done" /\ written[p] # NoResponse
    /\ stats.requestsTotal = 2 /\ stats.upstreamFetches = 1

\* C18 (as claimed): in every reachable state
\* cache_hits_total + cache_misses_total <= requests_total.
C18_HitsAndMissesWithinRequests ==
  stats.cacheHits + stats.cacheMisses <= stats.requestsTotal

\* C18 (amended): a request reads the cache once, and once more after each
\* wait that is followed by another attempt; in every reachable state
\* cache_hits_total + cache_misses_total <= requests_total +
\* follower_waits_total, cache_hits_total <= requests_total, and no request
\* reads the cache more than 3 times.
C18_HitsAndMissesWithinRequestsAndWaits ==
  /\ stats.cacheHits + stats.cacheMisses <= stats.requestsTotal + stats.followerWaits
  /\ stats.cacheHits <= stats.requestsTotal
  /\ \A h \in Handlers : calls[h].get <= 3 /\ calls[h].get <= calls[h].wait + 1

\* C18 witness: one of two requests has read the cache three times: four
\* misses are counted for two requests.
C18_Witness ==
  /\ stats.requestsTotal = 2
  /\ stats.cacheMisses = 4
  /\ \E h \in Handlers : calls[h].get = 3 /\ calls[h].wait = 2

\* The handlers that have counted a miss and whose TryAcquireLeader has not
\* returned yet.
C19_Acquiring == {h \in Handlers : pc[h] = "acquire"}

\* C19 (as claimed): in every reachable state, failing store calls included,
\* leader_acquired_total + follower_waits_total >=
\* cache_misses_total - fallback_fetches_total.
C19_MissesAreCoordinated ==
  stats.leaderAcquired + stats.followerWaits
    >= stats.cacheMisses - stats.fallbackFetches

\* C19 (amended): every counted miss is followed by one TryAcquireLeader,
\* which is pending, failed (counted as a cache error), acquired or refused:
\* in every reachable state leader_acquired_total + follower_waits_total +
\* cache_errors_total + (handlers between the miss and the answer) >=
\* cache_misses_total, and leader_acquired_total + follower_waits_total <=
\* cache_misses_total.
C19_MissesAreCoordinatedOrFailed ==
  /\ stats.leaderAcquired + stats.followerWaits + stats.cacheOperationError
       + Cardinality(C19_Acquiring) >= stats.cacheMisses
  /\ stats.leaderAcquired + stats.followerWaits <= stats.cacheMisses

\* C19 witness: a request ended on a failed TryAcquireLeader, nobody is
\* running, and its miss is matched by no acquisition, wait or fallback.
C19_Witness ==
  /\ \A h \in Handlers : pc[h] \in {"idle", "done"}
  /\ \E h \in Handlers : pc[h] = "done" /\ calls[h].acquire = 1 /\ lock[h] = NoLock
                           /\ mode[h] # "follower" /\ err[h] # "nil"
  /\ stats.fallbackFetches = 0
  /\ stats.leaderAcquired + stats.followerWaits < stats.cacheMisses

\* Some endpoint resolves to CACHE: the DEFAULT policy, or an override
\* merged with it.
C20_ResolvesToCache ==
  \E p \in DOMAIN endpoints :
    (IF endpoints[p].CacheBehavior # "" THEN endpoints[p].CacheBehavior
     ELSE endpoints[DefaultEndpointKey].CacheBehavior) = "CACHE"

\* The coordination store answers ping: there is a store and it answers.
C20_StoreAnswersPing == storeConfigured /\ storeAnswers

\* C20: the ready endpoint answers 200 if and only if no endpoint resolves
\* to CACHE or the coordination store answers ping, and 503 otherwise, for
\* every combination of configuration and store.
C20_ReadyIffNoCacheOrPing ==
  [][ready' # ready =>
       /\ ready' \in {StatusOK, StatusServiceUnavailable}
       /\ ready' = StatusOK <=> (~C20_ResolvesToCache \/ C20_StoreAnswersPing)]_vars

\* C20 (as coded): the ready endpoint answers 200 if and only if the store answers ping, or
\* there is no store and no endpoint resolves to CACHE.
C20_ReadyPingsAnyStore ==
  [][ready' # ready =>
       /\ ready' \in {StatusOK, StatusServiceUnavailable}
       /\ ready' = StatusOK <=>
            \/ C20_StoreAnswersPing
            \/ ~storeConfigured /\ ~C20_ResolvesToCache]_vars

\* C20 witness: no endpoint resolves to CACHE, a store is configured and
\* does not answer, and the ready endpoint has answered 503.
C20_NotReadyWithoutCache ==
  /\ ~C20_ResolvesToCache
  /\ storeConfigured /\ ~storeAnswers
  /\ ready = StatusServiceUnavailable

\* Handler h is serving a request with a method other than GET on a path
\* that is not an operational endpoint.
C21_NotGet(h) ==
  /\ http[h].method \notin {"", "GET"}
  /\ http[h].path \notin AdminPaths

\* The arrival of such a request: nothing of the service, the store or the
\* router changes, and the answer is 405.
C21_Step ==
  \A h \in Handlers :
    (http[h] = NoExchange /\ C21_NotGet(h)') =>
      /\ http'[h].status = StatusMethodNotAllowed
      /\ UNCHANGED <<values, locks, inflight, next, stats, req, attempts, lock, mode,
                     resp, written, err, lease, calls, cancelled>>

\* C21: a request with a method other than GET on a non-administrative path
\* is answered 405 and never reaches the request service: no upstream fetch,
\* no store call, no counter change (requests_total included); whoever is in
\* the service came with GET.
C21_OnlyGetReachesService ==
  /\ [](\A h \in Handlers :
          /\ C21_NotGet(h) =>
               /\ http[h].status = StatusMethodNotAllowed
               /\ pc[h] = "done"
               /\ req[h] = NoRequest /\ calls[h] = NoCalls /\ lease[h] = NoNode
               /\ written[h] = NoResponse /\ err[h] = "nil"
          /\ req[h] # NoRequest => http[h].method = "GET")
  /\ [][C21_Step]_vars

\* C21 witness: a POST or DELETE of a proxied path has been answered while
\* the other handler is fetching the same path from upstream, and one
\* request is counted.
C21_Witness ==
  \E h, g \in Handlers :
    /\ C21_NotGet(h) /\ http[h].path = "/articles"
    /\ http[h].status = StatusMethodNotAllowed
    /\ pc[g] = "fetching" /\ req[g].path = "/articles"
    /\ stats.requestsTotal = 1

\* The behaviour and the timeout a declared key resolves to.
C22_Resolved(p) ==
  LET d == endpoints[DefaultEndpointKey]
      e == endpoints[p] IN
  [CacheBehavior |-> IF e.CacheBehavior = "" THEN d.CacheBehavior ELSE e.CacheBehavior,
   ExpireTimeout |-> IF e.ExpireTimeout > 0 THEN e.ExpireTimeout ELSE d.ExpireTimeout]

\* C22: Validate rejects every configuration in which DEFAULT, or a declared
\* override after merging with DEFAULT, is CACHE with expireTimeout <= 0:
\* every endpoint of an accepted configuration that resolves to CACHE has a
\* cache TTL > 0.
C22_AcceptedCacheHasPositiveTTL ==
  validated = "nil" =>
    /\ \A p \in DOMAIN endpoints :
         C22_Resolved(p).CacheBehavior = "CACHE" => C22_Resolved(p).ExpireTimeout > 0
    /\ resolved # NoResolution =>
         (resolved.endpoint.CacheBehavior = "CACHE" => resolved.endpoint.ExpireTimeout > 0)

\* C22 (as coded): Validate rejects negative timeouts only: every endpoint
\* of an accepted configuration has a cache TTL >= 0, and a rejected
\* configuration is never resolved.
C22_AcceptedTTLNotNegative ==
  /\ validated = "nil" =>
       /\ \A p \in DOMAIN endpoints : C22_Resolved(p).ExpireTimeout >= 0
       /\ resolved # NoResolution => resolved.endpoint.ExpireTimeout >= 0
  /\ validated # "nil" => resolved = NoResolution

\* C22 witness: a file whose DEFAULT is CACHE with expireTimeout 0 was
\* accepted, and a request path has resolved to CACHE with a TTL of 0.
C22_Witness ==
  /\ validated = "nil"
  /\ endpoints[DefaultEndpointKey].CacheBehavior = "CACHE"
  /\ endpoints[DefaultEndpointKey].ExpireTimeout = 0
  /\ resolved # NoResolution
  /\ resolved.endpoint.CacheBehavior = "CACHE" /\ resolved.endpoint.ExpireTimeout = 0

\* C23: for every configuration accepted by Validate and every request
\* path, Endpoint(path) yields a cacheBehavior in {CACHE, PASSTHROUGH}, so
\* Handle never fails with an unsupported-behavior error; a configuration
\* without DEFAULT, or whose DEFAULT has no valid cacheBehavior, is rejected.
C23_ResolutionIsInfallible ==
  /\ validated = "nil" =>
       /\ \A path \in RequestPaths :
            ConfigEndpoint(endpoints, path).CacheBehavior \in {"CACHE", "PASSTHROUGH"}
       /\ resolved # NoResolution =>
            /\ resolved.endpoint.CacheBehavior \in {"CACHE", "PASSTHROUGH"}
            /\ resolved.error = "nil"
  /\ (/\ validated # ""
      /\ \/ DefaultEndpointKey \notin DOMAIN endpoints
         \/ endpoints[DefaultEndpointKey].CacheBehavior \notin {"CACHE", "PASSTHROUGH"})
       => validated # "nil" /\ resolved = NoResolution

\* C23 witness: a request path with an override that leaves the behaviour
\* out has resolved to the behaviour of DEFAULT.
C23_Witness ==
  /\ validated = "nil"
  /\ resolved # NoResolution
  /\ resolved.path \in DOMAIN endpoints
  /\ endpoints[resolved.path].CacheBehavior = ""
  /\ resolved.endpoint.CacheBehavior = endpoints[DefaultEndpointKey].CacheBehavior
  /\ resolved.endpoint.CacheBehavior = "PASSTHROUGH"

\* The keys that begin with the reserved prefix /__doormanlb/.
C24_Reserved == {"/__doormanlb/", "/__doormanlb/metrics", "/__doormanlb/custom"}

\* C24: Validate rejects every configuration that declares an override key
\* starting with the reserved prefix /__doormanlb/, whatever the policy of
\* that entry.
C24_ReservedPrefixRejected ==
  (validated # "" /\ DOMAIN endpoints \cap C24_Reserved # {}) =>
     validated # "nil" /\ resolved = NoResolution

\* C24 witness: a file whose only fault is an override under the reserved
\* prefix, not one of the operational endpoints, was rejected for that key.
C24_Witness ==
  /\ validated = "endpoint key uses reserved prefix"
  /\ "/__doormanlb/custom" \in DOMAIN endpoints
  /\ validateEndpoint(endpoints["/__doormanlb/custom"], FALSE) = "nil"
  /\ endpoints["/__doormanlb/custom"].CacheBehavior = "PASSTHROUGH"

\* floor(N/M) and ceil(N/M)
C25_Floor(N, M) == N \div M
C25_Ceil(N, M) == (N + M - 1) \div M

\* Every node appears floor(N/M) or ceil(N/M) times among these N nodes.
C25_Balanced(nodes) ==
  \A n \in Nodes :
    LET k == Cardinality({i \in DOMAIN nodes : nodes[i] = n}) IN
    k \in {C25_Floor(Len(nodes), Len(Services)), C25_Ceil(Len(nodes), Len(Services))}

\* No call of Acquire is in progress.
C25_NoAcquireRunning == \A c \in Handlers : caller[c].pc \notin {"scan", "add"}

C26_Takes(c) == caller[c].pc = "add" /\ caller'[c].pc = "idle"

\* C26: under LEAST_CONNECTIONS every acquire, concurrent ones included,
\* selects a node whose inflight count is the minimum over all nodes at the
\* moment the lease is taken (when its inflight is incremented).
C26_LeaseOnMinimum ==
  [][\A c \in Handlers :
       (strategy = "LEAST_CONNECTIONS" /\ C26_Takes(c)) =>
          \A m \in Nodes : inflight[caller[c].selected] <= inflight[m]]_vars

\* C26 witness: two acquires under LEAST_CONNECTIONS have both read the
\* loads before either lease was taken: both leases are on the first node,
\* none was released, and the second node is idle.
C26_Witness ==
  /\ strategy = "LEAST_CONNECTIONS"
  /\ Len(leases) = 2
  /\ \A i \in DOMAIN leases : leases[i].node = 1 /\ ~leases[i].released
  /\ inflight[1] = 2 /\ inflight[2] = 0

\* The leases of node n that were returned and whose releaseFn has not run.
C27_Outstanding(n) == {id \in DOMAIN leases : leases[id].node = n /\ leases[id].decrements = 0}

\* C27: for every node, in every reachable state, inflight equals the
\* number of leases acquired on that node and not yet released, and is never
\* negative; Release called several times on one lease, also by concurrent
\* callers, decrements the node's inflight exactly once.
C27_InflightCountsLeases ==
  /\ [](/\ \A n \in Nodes : inflight[n] = Cardinality(C27_Outstanding(n)) /\ inflight[n] >= 0
        /\ \A id \in DOMAIN leases :
             /\ leases[id].decrements <= 1
             /\ leases[id].decrements = 1 => leases[id].released
             /\ (leases[id].released /\ leases[id].decrements = 0) =>
                  \E c \in Handlers : caller[c].pc = "releaseFn" /\ caller[c].lease = id)
  /\ [][\A id \in DOMAIN leases :
          (leases[id].released /\ leases'[id].calls > leases[id].calls) =>
             UNCHANGED <<inflight, caller>> /\ leases'[id].decrements = leases[id].decrements]_vars

\* C27 witness: Release was called twice on one lease and has returned; the
\* node is back to the inflight of its other lease, which is still out.
C27_Witness ==
  \E id, other \in DOMAIN leases :
    /\ leases[id].calls = 2 /\ leases[id].decrements = 1
    /\ other # id /\ leases[other].node = leases[id].node /\ ~leases[other].released
    /\ inflight[leases[id].node] = 1
    /\ \A c \in Handlers : caller[c].pc = "idle"

\* How often parameter p occurs in query q.
C28_Count(q, p) == Cardinality({i \in DOMAIN q : q[i] = p})

\* Two queries with the same multiset of (key, value) parameters.
C28_SameParameters(q1, q2) == \A p \in ParamPairs : C28_Count(q1, p) = C28_Count(q2, p)

\* C28: with ignoreParameters=false, two requests with the same path and the
\* same multiset of (key, value) query parameters have the same fingerprint,
\* whatever the order of the keys and of the repeated values of one key.
C28_FingerprintIgnoresOrder ==
  (/\ build.keyA # NoKey
   /\ ~build.ignoreParameters
   /\ build.a.path = build.b.path
   /\ C28_SameParameters(build.a.query, build.b.query))
    => build.keyA = build.keyB

\* C28 witness: two requests of one path whose query strings repeat one key
\* with its two values in opposite orders have got the same fingerprint.
C28_Witness ==
  /\ build.keyA # NoKey /\ ~build.ignoreParameters
  /\ build.a.path = build.b.path
  /\ build.a.query = <<<<1, 2>>, <<1, 1>>>>
  /\ build.b.query = <<<<1, 1>>, <<1, 2>>>>
  /\ build.keyA = build.keyB

\* C29: with ignoreParameters=true the fingerprint depends on the path only:
\* two requests with the same path have the same fingerprint whatever their
\* query parameters, so they share one cache entry and one leader lock.
C29_FingerprintIgnoresParameters ==
  (/\ build.keyA # NoKey
   /\ build.ignoreParameters
   /\ build.a.path = build.b.path)
    => /\ build.keyA = build.keyB
       /\ build.keyA = <<build.a.path, <<>>>>

\* C29 witness: two requests of one path, one without parameters and one
\* with two, have got the same fingerprint.
C29_Witness ==
  /\ build.keyA # NoKey /\ build.ignoreParameters
  /\ build.a.path = build.b.path
  /\ build.a.query = <<>> /\ Len(build.b.query) = 2
  /\ build.keyA = build.keyB

\* The larger and the smaller of two durations.
C30_Max(a, b) == IF a >= b THEN a ELSE b
C30_Min(a, b) == IF a <= b THEN a ELSE b

\* The cache TTL of the endpoint of handler h's request, in milliseconds.
C30_CacheTTL(h) ==
  IF req[h].path \in DOMAIN endpoints /\ endpoints[req[h].path].ExpireTimeout > 0
    THEN endpoints[req[h].path].ExpireTimeout
    ELSE endpoints[DefaultEndpointKey].ExpireTimeout

\* C30: the lock TTL passed to tryAcquireLeader and the timeout passed to
\* waitForDone are the same value, the endpoint cache TTL clamped to
\* [15 s, 30 s]: 15 s when the cache TTL is <= 0 or below 15 s, 30 s when it
\* is above 30 s, the cache TTL itself otherwise.
C30_LockTTLIsClampedCacheTTL ==
  \A h \in Handlers :
    /\ calls[h].acquire > 0 =>
         /\ ttls[h].lockTTL = C30_Max(15000, C30_Min(30000, C30_CacheTTL(h)))
         /\ C30_CacheTTL(h) <= 0 => ttls[h].lockTTL = 15000
         /\ (C30_CacheTTL(h) >= 15000 /\ C30_CacheTTL(h) <= 30000) =>
              ttls[h].lockTTL = C30_CacheTTL(h)
    /\ calls[h].wait > 0 => ttls[h].timeout = ttls[h].lockTTL
    /\ calls[h].acquire = 0 => ttls[h] = NoTTLs

\* C30 witness: with a cache TTL of 10 minutes the leader holds its lock
\* and a follower waits, both with 30 s.
C30_Witness ==
  \E l, f \in Handlers :
    /\ endpoints[DefaultEndpointKey].ExpireTimeout = 600000
    /\ lock[l] # NoLock /\ ttls[l].lockTTL = 30000
    /\ pc[f] = "waiting" /\ ttls[f].timeout = 30000 /\ ttls[f].lockTTL = 30000

(***************************************************************************)
(* C31: the leader's cleanup comes after its set, so a woken follower      *)
(* finds the entry.                                                        *)
(***************************************************************************)
\* The leader's set has completed (with or without an error) or was skipped:
\* the upstream answered 5xx, or the fetch failed.
C31_SetOver(h) ==
  \/ calls[h].set = 1
  \/ resp[h] # NoResponse /\ ~shouldCache(resp[h].status)
  \/ err[h] = "upstream"

\* Handler f was woken by the notification of a leader whose set returned nil,
\* and the entry has not expired since.
C31_WokenToEntry(f) == notice[f].stored = "yes" /\ ~notice[f].lost

\* Handler f calls s.cache.Get in this step.
C31_Reads(f) == pc[f] = "get" /\ calls'[f].get = calls[f].get + 1

C31_IsHit(f) ==
  /\ stats'.cacheHits = stats.cacheHits + 1
  /\ stats'.upstreamFetches = stats.upstreamFetches
  /\ written'[f] = values[cacheKey(f)]
  /\ written'[f] # NoResponse
  /\ err'[f] = "nil"
  /\ pc'[f] = "done"

\* C31 as worded: every cache read a follower makes after being woken by a
\* leader that stored a response is a hit, as long as the entry has not expired.
C31_WokenFollowerHits ==
  [][\A f \in Handlers : C31_WokenToEntry(f) /\ C31_Reads(f) => C31_IsHit(f)]_vars

\* C31 (amended): a leader publishes and releases only after its set is over,
\* and makes no set after them; the entry a woken follower was notified of is
\* in the store until it expires; and the follower's next cache read, if it
\* returns no error (the store answers, the request context is not done), is a
\* hit that writes the stored response without an upstream fetch.
C31_CleanupAfterSet ==
  /\ [](\A h \in Handlers :
          /\ calls[h].publish > 0 \/ calls[h].release > 0 => C31_SetOver(h)
          /\ pc[h] \in {"publish", "release"} => C31_SetOver(h)
          /\ C31_WokenToEntry(h) => values[cacheKey(h)] # NoResponse)
  /\ [][\A h \in Handlers :
          /\ calls'[h].set > calls[h].set =>
               calls[h].publish = 0 /\ calls[h].release = 0
          /\ C31_WokenToEntry(h) /\ C31_Reads(h)
               /\ ~cancelled[h] /\ faults' = faults => C31_IsHit(h)]_vars

\* A follower woken by a leader that stored a response has read the cache and
\* been served the stored response, with no fetch of its own.
C31_Witness ==
  \E f \in Handlers :
    /\ C31_WokenToEntry(f)
    /\ notice[f].from # NoLock
    /\ pc[f] = "done"
    /\ calls[f].get >= 2
    /\ calls[f].fetch = 0
    /\ written[f] = values[cacheKey(f)]
    /\ written[f] # NoResponse

(***************************************************************************)
(* C32: the order of the leader's write and its notification.              *)
(***************************************************************************)
\* Handler h is a leader whose client has been sent the fresh response.
C32_Written(h) == mode[h] = "leader" /\ written[h] # NoResponse

\* C32 as worded: on the leader path the done notification is published
\* before the fresh response is written to the leader's client, so a leader
\* that has written has called publishDone.
C32_PublishPrecedesWrite ==
  \A h \in Handlers : C32_Written(h) => calls[h].publish >= 1

\* C32, as the code runs: the leader writes the fresh response to its client
\* before it publishes; when publishDone is called the write is over, and
\* neither publish nor release changes what was written.
C32_WritePrecedesPublish ==
  /\ [](\A h \in Handlers :
          mode[h] = "leader" /\ resp[h] # NoResponse
            /\ (pc[h] \in {"publish", "release"} \/ calls[h].publish >= 1)
          => written[h] = resp[h])
  /\ [][\A h \in Handlers :
          /\ written'[h] # written[h] /\ written'[h] # NoResponse
               /\ mode[h] = "leader" =>
               calls[h].publish = 0 /\ pc'[h] = "publish"
          /\ calls'[h].publish > calls[h].publish => written'[h] = written[h]]_vars

\* A leader has written its response and not yet published, while a follower
\* of its key is waiting for the notification.
C32_Witness ==
  \E h, f \in Handlers :
    /\ C32_Written(h)
    /\ pc[h] = "publish"
    /\ calls[h].publish = 0
    /\ pc[f] = "waiting"
    /\ cacheKey(f) = cacheKey(h)

(***************************************************************************)
(* C33: a notification published before the follower has subscribed.       *)
(***************************************************************************)
\* In its present attempt handler f was refused the lock, and the leader, who
\* had stored a response, published before f subscribed.
C33_LostNotice(f) ==
  /\ notice[f].lost
  /\ notice[f].from # NoLock
  /\ notice[f].stored # "no"
  /\ notice[f].attempt = attempts[f]

\* The wait of f ended by timeout, the backoff is over, and f is at the cache
\* read of its next attempt.
C33_AfterTimeout(f) ==
  /\ notice[f].lost
  /\ notice[f].from # NoLock
  /\ notice[f].stored # "no"
  /\ notice[f].attempt + 1 = attempts[f]
  /\ pc[f] = "get"

\* C33 as worded: after the lost notification and the timeout, the follower's
\* next cache read (one that returns no error) returns the leader's stored
\* response, and the follower makes no upstream fetch of its own.
C33_LostNoticeRecoveredFromCache ==
  /\ [][\A f \in Handlers :
          C33_AfterTimeout(f) /\ C31_Reads(f) /\ ~cancelled[f] /\ faults' = faults
            => C31_IsHit(f)]_vars
  /\ [](\A f \in Handlers :
          notice[f].lost /\ notice[f].stored # "no" => calls[f].fetch = 0)

\* C33, as the code runs: the notification does not reach a handler that has
\* not subscribed, which then subscribes and waits although the leader is
\* done; and when its timer fires after a timeout no shorter than the TTL of
\* the entry, the entry the leader stored is no longer in the store.
C33_LostNoticeOutlivesEntry ==
  [][\A f \in Handlers :
       /\ pc[f] = "subscribe" /\ notice'[f].lost /\ notice'[f] # notice[f]
            => pc'[f] = "subscribe"
       /\ C33_LostNotice(f) /\ pc[f] = "waiting" /\ pc'[f] = "backoff"
            /\ older[f] /\ ttls[f].timeout >= CacheTTL(Endpoint(req[f].path))
            /\ CacheTTL(Endpoint(req[f].path)) > 0
            => /\ values'[cacheKey(f)] = NoResponse
               /\ notice'[f].stored = "expired"
               /\ stats'.followerTimeouts = stats.followerTimeouts + 1]_vars

\* The follower that lost the notification of a leader that had stored a
\* response has timed out, missed the cache, taken the lock and fetched from
\* the upstream itself.
C33_Witness ==
  \E f \in Handlers :
    /\ notice[f].lost
    /\ notice[f].from # NoLock
    /\ notice[f].stored = "expired"
    /\ mode[f] = "leader"
    /\ lock[f] # notice[f].from
    /\ calls[f].fetch = 1
    /\ stats.followerTimeouts >= 1

(***************************************************************************)
(* C34: the lock of a leader that woke its followers without storing.      *)
(***************************************************************************)
\* Handler f was woken, in its previous attempt, by the notification of a
\* leader that stored nothing, has missed the cache and is at tryAcquireLeader.
C34_WokenToNothing(f) ==
  /\ notice[f].from # NoLock
  /\ ~notice[f].lost
  /\ notice[f].stored = "no"
  /\ notice[f].attempt + 1 = attempts[f]

\* Handler f calls tryAcquireLeader in this step and the call returns no error.
C34_Contends(f) ==
  /\ pc[f] = "acquire"
  /\ calls'[f].acquire = calls[f].acquire + 1
  /\ ~cancelled[f]
  /\ faults' = faults

\* C34 as worded: the woken follower acquires the lock itself or finds it held
\* by another handler, never by the leader that woke it.
C34_WakingLeaderDoesNotBlock ==
  [][\A f \in Handlers :
       C34_WokenToNothing(f) /\ C34_Contends(f) =>
         \/ pc'[f] = "fetch" /\ locks'[cacheKey(f)] = lock'[f]
         \/ locks[cacheKey(f)] # notice[f].from]_vars

\* C34, as the code runs: the woken follower is refused exactly when a lock is
\* stored, and when that lock is the one of the leader that woke it, that
\* leader has published and is yet to call releaseLeader.
C34_WakingLeaderBlocksUntilRelease ==
  [][\A f \in Handlers :
       C34_WokenToNothing(f) /\ C34_Contends(f) =>
         /\ pc'[f] = "fetch" <=> locks[cacheKey(f)] = NoLock
         /\ locks[cacheKey(f)] = notice[f].from =>
              /\ pc'[f] = "subscribe"
              /\ \E h \in Handlers \ {f} :
                   /\ lock[h] = notice[f].from
                   /\ pc[h] = "release"
                   /\ calls[h].publish = 1]_vars

\* A follower woken by a leader that stored nothing has missed the cache and
\* been refused the lock by that same leader, which has not released yet; the
\* follower is back in waitForDone.
C34_Witness ==
  \E f \in Handlers :
    /\ C34_WokenToNothing(f)
    /\ refused[f] = notice[f].from
    /\ pc[f] \in {"subscribe", "waiting"}
    /\ \E h \in Handlers \ {f} : lock[h] = refused[f] /\ pc[h] = "release"

(***************************************************************************)
(* C35: a leader that stops without its cleanup.                           *)
(***************************************************************************)
\* Leader h has stopped and its lock is still stored.
C35_Orphaned(h) ==
  /\ pc[h] = "crashed"
  /\ lock[h] # NoLock
  /\ locks[cacheKey(h)] = lock[h]

\* Handle of handler h has returned nil and its client has a response.
C35_Completed(h) == pc[h] = "done" /\ written[h] # NoResponse /\ err[h] = "nil"

\* C35: a stopped leader has neither published nor released; its lock stays
\* stored until its TTL runs out (by itself, or as seen at the timeout of a
\* wait that began after the lock was set) and does run out; and every request
\* a handler is serving, waiting for the stopped leader or arriving after it,
\* completes with a response.
C35_StoppedLeaderDoesNotBlock ==
  /\ [](\A h \in Handlers :
          pc[h] = "crashed" => calls[h].publish = 0 /\ calls[h].release = 0)
  /\ [][\A h \in Handlers :
          C35_Orphaned(h) /\ locks'[cacheKey(h)] # lock[h] =>
            /\ locks'[cacheKey(h)] = NoLock
            /\ \/ pc' = pc
               \/ \E f \in Handlers : pc[f] = "waiting" /\ pc'[f] = "backoff"]_vars
  /\ \A h \in Handlers : C35_Orphaned(h) ~> ~C35_Orphaned(h)
  /\ \A h \in Handlers :
       pc[h] \notin {"idle", "done", "crashed"} ~>
         (C35_Completed(h) \/ pc[h] = "crashed")

\* A leader has stopped, and the handler that was waiting for it has timed out,
\* found the lock gone, become leader with a lock of its own and completed with
\* a response.
C35_Witness ==
  \E h, f \in Handlers :
    /\ pc[h] = "crashed"
    /\ lock[h] # NoLock
    /\ stats.followerTimeouts >= 1
    /\ mode[f] = "leader"
    /\ lock[f] # lock[h]
    /\ calls[f].wait >= 1
    /\ C35_Completed(f)

(***************************************************************************)
(* C36: the single-flight loop is bounded.                                 *)
(***************************************************************************)
\* C36: a Handle call makes at most 3 iterations of the loop (at most 3 cache
\* gets, 3 tryAcquireLeader calls and 3 waitForDone calls, each call belonging
\* to an iteration), and, every store call, wait and fetch returning, it
\* returns.
C36_LoopIsBounded ==
  /\ [](\A h \in Handlers :
          /\ attempts[h] <= 3
          /\ calls[h].get <= 3 /\ calls[h].acquire <= 3 /\ calls[h].wait <= 3
          /\ calls[h].wait <= calls[h].acquire
          /\ calls[h].acquire <= calls[h].get
          /\ calls[h].get <= attempts[h] + 1)
  /\ \A h \in Handlers : pc[h] \notin {"idle", "done"} ~> pc[h] = "done"

\* A Handle call has returned after three iterations: three gets, three
\* refusals, three waits, and the fallback fetch.
C36_Witness ==
  \E h \in Handlers :
    /\ pc[h] = "done"
    /\ attempts[h] = 3
    /\ calls[h].get = 3 /\ calls[h].acquire = 3 /\ calls[h].wait = 3
    /\ mode[h] = "fallback"

(***************************************************************************)
(* C37: a wait that times out.                                             *)
(***************************************************************************)
\* The waitForDone of handler h returns WaitTimeout in this step.
C37_TimesOut(h) == pc[h] = "waiting" /\ pc'[h] = "backoff"

\* The sleepBackoff of handler h returns in this step.
C37_BackoffOver(h) == pc[h] = "backoff" /\ pc'[h] # "backoff"

\* sleepBackoff returned the context error and Handle returns it: nothing is
\* counted, no call is made, nothing is fetched or written.
C37_ReturnsContextError(h) ==
  /\ pc'[h] = "done"
  /\ err'[h] = "context"
  /\ stats' = stats
  /\ calls'[h] = calls[h]
  /\ written'[h] = written[h]
  /\ attempts'[h] = attempts[h]

\* sleepBackoff returned nil: the next attempt, or the fallback after the last.
C37_GoesOn(h) ==
  /\ attempts'[h] = attempts[h] + 1
  /\ err'[h] = err[h]
  /\ \/ /\ attempts'[h] < 3
        /\ pc'[h] = "get"
        /\ stats' = stats
     \/ /\ attempts'[h] = 3
        /\ pc'[h] = "fetch"
        /\ mode'[h] = "fallback"
        /\ stats' = [stats EXCEPT !["fallbackFetches"] = @ + 1]

\* C37 as worded: whenever the request context is cancelled during the
\* backoff, Handle returns the context error without fetching upstream.
C37_CancelledBackoffReturns ==
  [][\A h \in Handlers :
       C37_BackoffOver(h) /\ cancelled[h] => C37_ReturnsContextError(h)]_vars

\* C37 (amended): Handle returns no timeout error; each timeout of waitForDone
\* adds 1 to follower_timeouts_total, which nothing else changes, so that
\* follower_timeouts_total <= follower_waits_total; a timeout is followed by the
\* backoff, and the backoff by the next attempt or by the fallback, or, the
\* request context being cancelled, by the return of the context error with no
\* upstream fetch; a backoff whose timer has fired too may go on instead.
C37_TimeoutIsConsumed ==
  /\ [](/\ stats.followerTimeouts <= stats.followerWaits
        /\ \A h \in Handlers :
             /\ err[h] \in {"nil", "config", "store", "context", "upstream"}
             /\ pc[h] = "backoff" => err[h] = "nil" /\ calls[h].fetch = 0)
  /\ [][/\ \A h \in Handlers :
             /\ C37_TimesOut(h) =>
                  /\ stats'.followerTimeouts = stats.followerTimeouts + 1
                  /\ err'[h] = err[h]
                  /\ calls'[h] = calls[h]
                  /\ attempts'[h] = attempts[h]
             /\ pc[h] = "waiting" /\ pc'[h] \notin {"waiting", "notified"}
                  /\ ~cancelled[h] => C37_TimesOut(h)
             /\ C37_BackoffOver(h) =>
                  \/ C37_GoesOn(h)
                  \/ cancelled[h] /\ C37_ReturnsContextError(h)
        /\ stats'.followerTimeouts # stats.followerTimeouts =>
             \E h \in Handlers : C37_TimesOut(h)]_vars

\* A handler whose wait timed out was cancelled during the backoff and has
\* returned the context error: no cache error counted, no fetch made.
C37_Witness ==
  \E h \in Handlers :
    /\ pc[h] = "done"
    /\ err[h] = "context"
    /\ cancelled[h]
    /\ stats.followerTimeouts >= 1
    /\ stats.cacheOperationError = 0
    /\ calls[h].fetch = 0
    /\ written[h] = NoResponse

(***************************************************************************)
(* C38: a failing publishDone or releaseLeader.                            *)
(***************************************************************************)
\* Handler h makes a call of its leader cleanup in this step.
C38_Cleanup(h) == pc[h] \in {"publish", "release"} /\ pc'[h] # pc[h]

\* The call of the leader cleanup that handler h makes in this step fails.
C38_CleanupFails(h) == C38_Cleanup(h) /\ faults' # faults

\* C38 as worded: a failing publishDone or releaseLeader changes neither the
\* response written nor the value Handle returns, and adds 1 to
\* cache_errors_total.
C38_CleanupFailureIsCounted ==
  [][\A h \in Handlers :
       C38_CleanupFails(h) =>
         /\ written'[h] = written[h]
         /\ err'[h] = err[h]
         /\ stats'.cacheOperationError = stats.cacheOperationError + 1]_vars

\* C38 (as coded): a call of the leader cleanup, failing or not, changes
\* neither the response written nor the value Handle returns, and no counter
\* of the service: a failure leaves no trace in the metrics.
C38_CleanupFailureIsSilent ==
  [][\A h \in Handlers :
       C38_Cleanup(h) =>
         /\ written' = written
         /\ resp' = resp
         /\ err' = err
         /\ stats' = stats]_vars

\* A leader has written its response and returned nil although its
\* releaseLeader failed (its lock is still stored); no cache error is counted.
C38_Witness ==
  \E h \in Handlers :
    /\ pc[h] = "done"
    /\ mode[h] = "leader"
    /\ written[h] # NoResponse
    /\ err[h] = "nil"
    /\ lock[h] # NoLock
    /\ locks[cacheKey(h)] = lock[h]
    /\ faults = 1
    /\ stats.cacheOperationError = 0

(***************************************************************************)
(* C39: one upstream fetch per request at most.                            *)
(***************************************************************************)
\* Handler h calls fetchFromUpstream in this step.
C39_Fetches(h) == calls'[h].fetch > calls[h].fetch

\* C39: a Handle call makes at most one upstream fetch, as passthrough, as
\* leader or as fallback (it has made none when it makes it, and its way of
\* serving does not change afterwards), no fetch is made outside a Handle
\* call, and upstream_fetches_total <= requests_total in every state.
C39_AtMostOneFetchPerRequest ==
  /\ [](/\ stats.upstreamFetches <= stats.requestsTotal
        /\ \A h \in Handlers :
             /\ calls[h].fetch <= 1
             /\ calls[h].fetch = 1 => mode[h] \in {"passthrough", "leader", "fallback"})
  /\ [][/\ \A h \in Handlers :
             /\ C39_Fetches(h) =>
                  /\ calls[h].fetch = 0
                  /\ calls'[h].fetch = 1
                  /\ stats'.upstreamFetches = stats.upstreamFetches + 1
                  /\ stats'.requestsTotal = stats.requestsTotal
             /\ calls[h].fetch = 1 /\ calls'[h].fetch = 1 => mode'[h] = mode[h]
        /\ stats'.upstreamFetches # stats.upstreamFetches =>
             \E h \in Handlers : C39_Fetches(h)]_vars

\* Every request so far has made its one fetch: a leader has returned, and
\* upstream_fetches_total has reached requests_total with two requests.
C39_Witness ==
  /\ stats.requestsTotal >= 2
  /\ stats.upstreamFetches = stats.requestsTotal
  /\ \E h \in Handlers :
       /\ pc[h] = "done"
       /\ mode[h] = "leader"
       /\ calls[h].fetch = 1

(***************************************************************************)
(* C40: the lease of an upstream fetch.                                    *)
(***************************************************************************)
\* The handlers whose upstream fetch is in progress, and those of them that
\* hold a lease on node n.
C40_InProgress == {h \in Handlers : Fetching(h)}
C40_OnNode(n) == {h \in C40_InProgress : lease[h] = n}

\* The sum of the inflight counts of all nodes.
C40_Inflight == Cardinality({p \in Nodes \X (1..Cardinality(Handlers)) : p[2] <= inflight[p[1]]})

\* C40: a fetch takes one lease when it starts and releases it when it
\* returns, with a response or an error, also under a cancelled context: every
\* node's inflight count is the number of fetches in progress on it, so the
\* counts sum to the number of fetches in progress and are all 0 when there
\* is none.
C40_LeaseReleasedOnEveryExit ==
  /\ [](/\ \A n \in Nodes : inflight[n] = Cardinality(C40_OnNode(n))
        /\ \A h \in Handlers : lease[h] # NoNode <=> Fetching(h)
        /\ C40_Inflight = Cardinality(C40_InProgress)
        /\ C40_InProgress = {} => \A n \in Nodes : inflight[n] = 0)
  /\ [][\A h \in Handlers :
          /\ ~Fetching(h) /\ Fetching(h)' =>
               /\ lease'[h] \in Nodes
               /\ inflight' = [inflight EXCEPT ![lease'[h]] = @ + 1]
          /\ Fetching(h) /\ ~Fetching(h)' =>
               /\ inflight' = [inflight EXCEPT ![lease[h]] = @ - 1]
               /\ lease'[h] = NoNode]_vars

\* A fetch under a cancelled context has returned its error, and no fetch is
\* in progress: every inflight count is back at 0.
C40_Witness ==
  /\ C40_InProgress = {}
  /\ \A n \in Nodes : inflight[n] = 0
  /\ \E h \in Handlers :
       /\ pc[h] = "done"
       /\ calls[h].fetch = 1
       /\ err[h] = "upstream"
       /\ cancelled[h]

=============================================================================
